---- MODULE Spec2Model ----
(***************************************************************************)
(* State-machine model of the word chain ("basic") game of wordsensei.py:  *)
(* the registry basic_games, the BasicGameSession objects, the inbound     *)
(* handlers (play_basic, basic_join, basic_force_start, basic_cancel,      *)
(* /stop, word submission) and the per-game coroutine                      *)
(* start_basic_game_timer.  The program runs on one asyncio event loop: a  *)
(* handler or the timer coroutine runs without interruption from one       *)
(* await that really suspends (sleep, network send, dictionary lookup) to  *)
(* the next, so each action below is one such run.                         *)
(* One group chat is modelled; sessions of different chats share nothing   *)
(* but the registry, which is keyed by chat id.                            *)
(***************************************************************************)
EXTENDS Integers, Sequences, FiniteSets, TLC

\* ------------------------------------------------------------------ bounds
NumUsers == 3
MaxGames == 1
\* session objects of the chat in the specification of the second game
MaxRematch == 2
\* members who press the buttons in the specification of the second game
NumRematchers == 2
NumCreators == 1
MaxPending == 1
NumTexts == 3
NumStartWords == 1
ClockStep == 30
MaxClock == 60
SweepStep == 1800
MaxSweepClock == 5430
MaxFetch == 1
NumLengths == 2
NumAttempts == 1
NumChoices == 2

Users == 1..NumUsers
GameIds == 1..MaxGames

\* --------------------------------------------------------- program constants
JOIN_TIME == 60
TURN_TIME == 40
MIN_WORD_LENGTH == 3
max_players == 50
min_players == 2
TIME_STEP == 5
TIME_FLOOR == 15
LENGTH_CAP == 9
WARN_FIRST == 30
WARN_SECOND == 15
ELIM_RESET_TIME == 40
VALID_MIN_LEN == 3
FILTER_MIN_LEN == 2
FILTER_MAX_LEN == 8
MAX_CONCURRENT_GAMES == 10000
DEFAULT_LENGTH == 5
DEFAULT_ATTEMPTS == 6
QUICK_LENGTH == 4
GUESS_MIN_LEN == 3
GUESS_MAX_LEN == 7
MIN_ATTEMPTS == 3
HARD_SECONDS == 30
MEDIUM_SECONDS == 60
EASY_SECONDS == 300
RATE_LIMIT_REQUESTS == 30
RATE_LIMIT_WINDOW == 60
SESSION_IDLE == 3600

\* ------------------------------------------------------------------ strings
\* A Python str is a sequence of one-character strings.
LowerCase ==
  << "a","b","c","d","e","f","g","h","i","j","k","l","m",
     "n","o","p","q","r","s","t","u","v","w","x","y","z" >>

UpperCase ==
  << "A","B","C","D","E","F","G","H","I","J","K","L","M",
     "N","O","P","Q","R","S","T","U","V","W","X","Y","Z" >>

LowerSet == { LowerCase[i] : i \in 1..26 }
UpperSet == { UpperCase[i] : i \in 1..26 }

\* the characters of the modelled texts: letters, a digit, a blank
Chars == LowerSet \cup UpperSet \cup {"2", " "}

IsLowerChar(c) == c \in LowerSet
IsUpperChar(c) == c \in UpperSet
IsSpace(c) == c = " "

\* the upper-case and lower-case form of each character
UpperOf ==
  [ c \in Chars |->
      IF c \in LowerSet THEN UpperCase[CHOOSE i \in 1..26 : LowerCase[i] = c] ELSE c ]

LowerOf ==
  [ c \in Chars |->
      IF c \in UpperSet THEN LowerCase[CHOOSE i \in 1..26 : UpperCase[i] = c] ELSE c ]

\* str.upper(), str.lower()
Upper(s) == [i \in 1..Len(s) |-> UpperOf[s[i]]]
Lower(s) == [i \in 1..Len(s) |-> LowerOf[s[i]]]

\* str.strip(): leading and trailing whitespace removed
Strip(s) ==
  LET keep == { i \in 1..Len(s) : ~IsSpace(s[i]) }
  IN  IF keep = {} THEN << >>
      ELSE LET lo == CHOOSE i \in keep : \A j \in keep : i <= j
               hi == CHOOSE i \in keep : \A j \in keep : j <= i
           IN  SubSeq(s, lo, hi)

\* str.isalpha(): non-empty and every character a letter
IsAlpha(s) ==
  Len(s) > 0 /\ \A i \in 1..Len(s) : IsLowerChar(s[i]) \/ IsUpperChar(s[i])

\* str.startswith(letter) for a one-character prefix
StartsWith(s, c) == Len(s) > 0 /\ s[1] = c

LastChar(s) == s[Len(s)]

\* the dispatcher filter ~F.text.regexp(r'^[a-zA-Z]{2,8}$') of the group
\* message handler registered before handle_guess: a group text reaches
\* handle_guess only when it matches the pattern
MatchesWordPattern(s) ==
  IsAlpha(s) /\ Len(s) >= FILTER_MIN_LEN /\ Len(s) <= FILTER_MAX_LEN

\* ------------------------------------------------------------- input tables
\* get_starting_word's list
starting_words ==
  << <<"F","L","A","R","I","N","G","L","Y">>,
     <<"W","O","N","D","E","R","F","U","L">>,
     <<"B","U","T","T","E","R","F","L","Y">>,
     <<"E","L","E","P","H","A","N","T">>,
     <<"C","H","A","M","P","I","O","N">>,
     <<"L","I","B","R","A","R","Y">>,
     <<"D","E","S","T","I","N","Y">>,
     <<"H","A","R","M","O","N","Y">>,
     <<"C","R","Y","S","T","A","L">>,
     <<"J","O","U","R","N","E","Y">> >>

\* message texts the users send
Texts ==
  << <<"y","a","k">>,
     <<"K","E","Y">>,
     <<"Y","E","L","L">>,
     <<"L","A","Y">>,
     <<"Y","O">>,
     <<"Y","2","K">>,
     <<"l","a","z","y">>,
     <<"y","i","e","l","d">>,
     <<"D","a","i","l","y">>,
     <<"y","e","l","l","o","w">>,
     <<"w","i","n","t","r","y">>,
     <<"y","o","u","n","g","e","r">>,
     <<"r","o","u","g","h","l","y">>,
     <<"y","e","a","r","b","o","o","k">>,
     <<"k","e","y","b","o","a","r","d">>,
     <<"d","a","y","d","r","e","a","m">>,
     <<"Y","a","k">>,
     <<"y","a","y">> >>

\* message.text.upper().strip() of each text
Word == [ i \in 1..Len(Texts) |-> Strip(Upper(Texts[i])) ]

\* whether the dispatcher routes each text to handle_guess
Routed == [ i \in 1..Len(Texts) |-> MatchesWordPattern(Texts[i]) ]

\* outcomes of the dictionary request of is_valid_word
ApiOutcomes == {"status200", "statusOther", "exception"}

\* ------------------------------------------------------------------- state
VARIABLES
  basic_games,   \* registry entry of the chat: 0 (absent) or the id of its session
  games,         \* the BasicGameSession objects, by id
  ngames,        \* number of objects constructed so far
  timers,        \* the start_basic_game_timer tasks: position and bound session
  pending,       \* handle_basic_game_word invocations suspended in is_valid_word
  user_sessions, \* the UserSession of each user
  group_games,   \* the UserSession of the group chat's guessing game, if any
  active_games,  \* the users registered as playing an individual game
  fetches,       \* start_new_game / game_new_word suspended in get_random_words
  replies,       \* what the latest run of the guess branches answered
  now,           \* time.time()
  requests       \* rate_limiter.requests: the times of each user's requests

\* the state of the chain game with the limiter's record, and the state of the
\* guessing games.  The handlers of commands and texts are modelled from the
\* statement after rate_limiter.is_allowed, for a request the limiter lets
\* through; the limiter itself is is_allowed below.
chain_vars == << basic_games, games, ngames, timers, pending, requests >>
guess_vars == << user_sessions, group_games, active_games, fetches, replies, now >>

vars == << basic_games, games, ngames, timers, pending, requests,
           user_sessions, group_games, active_games, fetches, replies, now >>

NoWord == << >>
NoLetter == ""

\* an object slot that holds no session (never constructed, or collected)
NoSession(state) ==
  [ players |-> << >>, turn_order |-> << >>, current_turn_index |-> 0,
    current_required_letter |-> NoLetter, words_used |-> << >>,
    game_state |-> state, join_time_left |-> 0, turn_time_left |-> 0,
    current_turn_timer |-> 0, last_word |-> NoWord, total_words |-> 0,
    min_word_length |-> 0, longest_word |-> NoWord ]

\* BasicGameSession.__init__
NewSession ==
  [ players |-> << >>, turn_order |-> << >>, current_turn_index |-> 0,
    current_required_letter |-> NoLetter, words_used |-> << >>,
    game_state |-> "waiting", join_time_left |-> JOIN_TIME,
    turn_time_left |-> TURN_TIME, current_turn_timer |-> TURN_TIME,
    last_word |-> NoWord, total_words |-> 0,
    min_word_length |-> MIN_WORD_LENGTH, longest_word |-> NoWord ]

\* a timer task: its position, its local variable game, the winner its final
\* message names (0: none) while that message is being sent, and, while the
\* elimination notice is being sent, how many players the elimination left
\* in the game (kept for the properties below; the code does not store it)
Task(pc, g, w, n) == [ pc |-> pc, game |-> g, winner |-> w, left |-> n ]

NoTimer == Task("none", 0, 0, 0)

\* ------------------------------------------------- guessing game sessions
\* max_attempts: a number, or float('inf')
Finite(n) == [ finite |-> TRUE, n |-> n ]
Infinity == [ finite |-> FALSE, n |-> 0 ]

\* game_start_time before the first game (None)
NoTime == 0

\* UserSession.__init__ at the time now (current_word None and "" are both
\* the empty word; language and timer_expired are never read)
NewUserSession ==
  [ current_word |-> NoWord, guesses |-> << >>, game_active |-> FALSE,
    word_length |-> DEFAULT_LENGTH, attempts |-> 0,
    max_attempts |-> Finite(DEFAULT_ATTEMPTS), timer_difficulty |-> "noob",
    game_start_time |-> NoTime, last_activity |-> now ]

\* the group chat
GroupChats == {"group"}

\* user_sessions holds a session for every user: get_user_session creates
\* the missing entry, so to every handler a user without an entry is a user
\* with a freshly constructed session.  No guessing game has been played.
InitGuess ==
  /\ now = ClockStep
  /\ requests = [ u \in Users |-> << >> ]
  /\ user_sessions = [ u \in Users |-> NewUserSession ]
  /\ group_games = << >>
  /\ active_games = {}
  /\ fetches = << >>
  /\ replies = {}

Init ==
  /\ InitGuess
  /\ basic_games = 0
  /\ games = [ g \in GameIds |-> NoSession("none") ]
  /\ ngames = 0
  /\ timers = [ g \in GameIds |-> NoTimer ]
  /\ pending = << >>

\* ------------------------------------------------------ object reachability
TimerAlive(t) == t.pc \notin {"none", "done"}

\* a session object is referenced by the registry, by a running timer task
\* (its local variable game) or by a suspended word handler (its argument)
Referenced(g, reg, tm, pend) ==
  \/ reg = g
  \/ \E t \in DOMAIN tm : TimerAlive(tm[t]) /\ tm[t].game = g
  \/ \E k \in 1..Len(pend) : pend[k].game = g

\* an object nothing references is collected: only its last phase is kept
Collect(gs, reg, tm, pend) ==
  [ g \in DOMAIN gs |->
      IF Referenced(g, reg, tm, pend) THEN gs[g]
      ELSE NoSession(gs[g].game_state) ]

\* a finished task keeps no reference
Finish(tm) ==
  [ t \in DOMAIN tm |-> IF tm[t].pc = "done" THEN Task("done", 0, 0, 0) ELSE tm[t] ]

\* the state after one run of a handler or of a timer task
CommitChain(reg, gs, n, tm, pend) ==
  /\ basic_games' = reg
  /\ ngames' = n
  /\ timers' = Finish(tm)
  /\ pending' = pend
  /\ games' = Collect(gs, reg, Finish(tm), pend)
  /\ UNCHANGED requests

\* a run of a chain game handler or timer task: the guessing games stay
Commit(reg, gs, n, tm, pend) ==
  /\ CommitChain(reg, gs, n, tm, pend)
  /\ UNCHANGED guess_vars

\* a handler that answers and returns without an assignment
Reject == UNCHANGED vars

\* ---------------------------------------------------------- pure helpers
RemoveAt(s, k) == SubSeq(s, 1, k - 1) \o SubSeq(s, k + 1, Len(s))

\* list.remove(x): the first occurrence
ListRemove(s, x) ==
  IF \E k \in 1..Len(s) : s[k] = x
  THEN RemoveAt(s, CHOOSE k \in 1..Len(s) : s[k] = x /\ \A j \in 1..(k-1) : s[j] # x)
  ELSE s

\* the results random.shuffle can leave in the list
PermutationsOf ==
  [ n \in 0..NumUsers |->
      { q \in [1..n -> 1..n] : \A i, j \in 1..n : q[i] = q[j] => i = j } ]

Shuffles(s) == { [ i \in 1..Len(s) |-> s[p[i]] ] : p \in PermutationsOf[Len(s)] }

NumPlayers(game) == Cardinality(DOMAIN game.players)

\* [p for p in game.players.values() if not p['eliminated']]
ActivePlayers(game) == { u \in DOMAIN game.players : ~game.players[u].eliminated }

IndexError == -1

\* get_current_player: None (0) for an empty turn order, IndexError when the
\* index is outside the list (indices are 0-based, as in the source)
get_current_player(game) ==
  IF Len(game.turn_order) = 0 THEN 0
  ELSE IF game.current_turn_index >= Len(game.turn_order) THEN IndexError
  ELSE game.turn_order[game.current_turn_index + 1]

\* get_next_player
get_next_player(game) ==
  IF Len(game.turn_order) <= 1 THEN 0
  ELSE game.turn_order[((game.current_turn_index + 1) % Len(game.turn_order)) + 1]

\* is_valid_word up to its network request: the shape checks that return
\* False without suspending
ValidShape(word) == Len(word) >= VALID_MIN_LEN /\ IsAlpha(word)

\* is_valid_word once the request has ended: 200 is True, another status is
\* False, an exception falls back to the shape check
ApiVerdict(word, api) ==
  CASE api = "status200" -> TRUE
    [] api = "statusOther" -> FALSE
    [] OTHER -> IsAlpha(word) /\ Len(word) >= VALID_MIN_LEN

\* word.lower() in [w.lower() for w in game.words_used]
AlreadyUsed(game, word) ==
  \E k \in 1..Len(game.words_used) : Lower(game.words_used[k]) = Lower(word)

\* ------------------------------------------------- handle_play_callbacks
\* a play_basic that does not look for a game in the chat, and puts the new
\* session and its timer task in the place of the ones the chat has
PlayBasicNoCheck(u) ==
  LET g == IF basic_games # 0 THEN basic_games ELSE ngames + 1
      game == [ NewSession EXCEPT
                  !.players = (u :> [ eliminated |-> FALSE ]),
                  !.turn_order = << u >>,
                  !.game_state = "joining" ]
  IN  /\ g <= MaxGames
      /\ Commit(g, [ games EXCEPT ![g] = game ],
                IF ngames >= g THEN ngames ELSE g,
                [ timers EXCEPT ![g] = Task("start", 0, 0, 0) ],
                pending)

\* play_basic in the group chat: create the session, join the creator,
\* register it and create its timer task
PlayBasic(u) ==
  IF basic_games # 0
  THEN Reject
  ELSE /\ ngames < Len(games)
       /\ LET g == ngames + 1
              game == [ NewSession EXCEPT
                          !.players = (u :> [ eliminated |-> FALSE ]),
                          !.turn_order = << u >>,
                          !.game_state = "joining" ]
          IN  Commit(g, [ games EXCEPT ![g] = game ], g,
                     [ timers EXCEPT ![g] = Task("start", 0, 0, 0) ],
                     pending)

\* ------------------------------------------- handle_basic_game_callbacks
\* the start of the game: shuffled order, starting word, required letter
StartedWith(game, order, word) ==
  [ game EXCEPT !.game_state = "active",
                !.turn_order = order,
                !.last_word = word,
                !.current_required_letter = LastChar(word) ]

JoinAccepts(game, u) ==
  u \notin DOMAIN game.players /\ NumPlayers(game) < max_players

Joined(game, u) ==
  [ game EXCEPT !.players = game.players @@ (u :> [ eliminated |-> FALSE ]),
                !.turn_order = Append(game.turn_order, u),
                !.game_state = "joining" ]

\* a join that does not look whether the game is full
BasicJoinNoCap(u) ==
  IF basic_games = 0 THEN Reject
  ELSE LET g == basic_games
           game == games[g]
       IN  IF u \in DOMAIN game.players THEN Reject
           ELSE Commit(g, [ games EXCEPT ![g] = Joined(game, u) ], ngames,
                       timers, pending)

BasicJoin(u) ==
  IF basic_games = 0 THEN Reject
  ELSE LET g == basic_games
           game == games[g]
       IN  IF u \in DOMAIN game.players THEN Reject
           ELSE IF NumPlayers(game) >= max_players THEN Reject
           ELSE Commit(g, [ games EXCEPT ![g] = Joined(game, u) ], ngames,
                       timers, pending)

ForceStartAccepts(game) == NumPlayers(game) >= 2

BasicForceStart(u) ==
  IF basic_games = 0 THEN Reject
  ELSE LET g == basic_games
           game == games[g]
       IN  IF ~ForceStartAccepts(game) THEN Reject
           ELSE \E order \in Shuffles(game.turn_order), i \in 1..NumStartWords :
                  Commit(g,
                         [ games EXCEPT ![g] =
                             StartedWith([ game EXCEPT !.join_time_left = 0 ],
                                         order, starting_words[i]) ],
                         ngames, timers, pending)

Cancelled(game) == [ game EXCEPT !.game_state = "cancelled" ]

BasicCancel(u) ==
  IF basic_games = 0 THEN Reject
  ELSE LET g == basic_games
       IN  Commit(0, [ games EXCEPT ![g] = Cancelled(games[g]) ], ngames,
                  timers, pending)

\* ----------------------------------------------------- the guessing games
\* the chats a handler runs in: the private chat of the sender (chat_id ==
\* user_id) and the group chat
Chats == {"private"} \cup GroupChats

Contains(s, x) == \E k \in 1..Len(s) : s[k] = x

First(s, n) == SubSeq(s, 1, IF n <= Len(s) THEN n ELSE Len(s))

\* a list without the entries equal to x
Without(s, x) == SelectSeq(s, LAMBDA w : w # x)

\* the fallback words of get_random_words, by length
fallback_words ==
  [ n \in GUESS_MIN_LEN..GUESS_MAX_LEN |->
      IF n = 3 THEN
         << <<"C","A","T">>,
            <<"D","O","G">>,
            <<"S","U","N">>,
            <<"C","A","R">>,
            <<"B","O","Y">>,
            <<"R","U","N">>,
            <<"E","A","T">>,
            <<"S","E","E">>,
            <<"B","I","G">>,
            <<"R","E","D">> >>
      ELSE IF n = 4 THEN
         << <<"P","L","A","Y">>,
            <<"W","O","R","D">>,
            <<"G","A","M","E">>,
            <<"L","O","V","E">>,
            <<"H","E","L","P">>,
            <<"W","O","R","K">>,
            <<"M","A","K","E">>,
            <<"G","O","O","D">>,
            <<"T","I","M","E">>,
            <<"T","A","K","E">> >>
      ELSE IF n = 5 THEN
         << <<"H","O","U","S","E">>,
            <<"W","O","R","L","D">>,
            <<"G","R","E","A","T">>,
            <<"P","L","A","C","E">>,
            <<"T","H","I","N","K">>,
            <<"W","A","T","E","R">>,
            <<"L","I","G","H","T">>,
            <<"S","M","A","L","L">>,
            <<"F","O","U","N","D">>,
            <<"S","T","I","L","L">> >>
      ELSE IF n = 6 THEN
         << <<"P","E","R","S","O","N">>,
            <<"M","O","T","H","E","R">>,
            <<"F","A","T","H","E","R">>,
            <<"S","C","H","O","O","L">>,
            <<"P","E","O","P","L","E">>,
            <<"F","R","I","E","N","D">>,
            <<"F","A","M","I","L","Y">>,
            <<"S","T","R","O","N","G">>,
            <<"B","R","I","G","H","T">>,
            <<"S","I","M","P","L","E">> >>
      ELSE
         << <<"E","X","A","M","P","L","E">>,
            <<"A","N","O","T","H","E","R">>,
            <<"P","I","C","T","U","R","E">>,
            <<"S","P","E","C","I","A","L">>,
            <<"P","E","R","F","E","C","T">>,
            <<"S","U","P","P","O","R","T">>,
            <<"P","R","O","G","R","A","M">>,
            <<"B","E","C","A","U","S","E">>,
            <<"T","H","R","O","U","G","H">>,
            <<"B","E","T","W","E","E","N">> >> ]

\* the fallback words of game_new_word, by length
new_word_fallback ==
  [ n \in GUESS_MIN_LEN..GUESS_MAX_LEN |->
      IF n = 3 THEN
         << <<"C","A","T">>,
            <<"D","O","G">>,
            <<"S","U","N">>,
            <<"B","O","Y">>,
            <<"R","E","D">>,
            <<"B","I","G">> >>
      ELSE IF n = 4 THEN
         << <<"P","L","A","Y">>,
            <<"W","O","R","D">>,
            <<"G","A","M","E">>,
            <<"L","O","V","E">>,
            <<"H","E","L","P">>,
            <<"W","O","R","K">> >>
      ELSE IF n = 5 THEN
         << <<"H","O","U","S","E">>,
            <<"W","O","R","L","D">>,
            <<"G","R","E","A","T">>,
            <<"P","L","A","C","E">>,
            <<"T","H","I","N","K">>,
            <<"W","A","T","E","R">> >>
      ELSE IF n = 6 THEN
         << <<"P","E","R","S","O","N">>,
            <<"M","O","T","H","E","R">>,
            <<"F","A","T","H","E","R">>,
            <<"S","C","H","O","O","L">>,
            <<"P","E","O","P","L","E">>,
            <<"F","R","I","E","N","D">> >>
      ELSE
         << <<"E","X","A","M","P","L","E">>,
            <<"A","N","O","T","H","E","R">>,
            <<"P","I","C","T","U","R","E">>,
            <<"S","P","E","C","I","A","L">>,
            <<"P","E","R","F","E","C","T">>,
            <<"S","U","P","P","O","R","T">> >> ]

\* fallback_words.get(length, fallback_words[5])
FallbackFor(table, length) ==
  IF length \in DOMAIN table THEN table[length] ELSE table[DEFAULT_LENGTH]

\* the words the random word service answers with, one for each length
ApiWords ==
  [ n \in GUESS_MIN_LEN..GUESS_MAX_LEN |->
      IF n = 3 THEN <<"d","o","g">>
      ELSE IF n = 4 THEN <<"w","o","r","d">>
      ELSE IF n = 5 THEN <<"w","o","r","l","d">>
      ELSE IF n = 6 THEN <<"m","o","t","h","e","r">>
      ELSE <<"a","n","o","t","h","e","r">> ]

\* how the request of get_random_words ends: status 200 with a list of
\* words, status 200 with another body or an empty list, another status or
\* an exception
FetchOutcomes == {"words", "empty", "failed"}

\* get_random_words(length, count)
get_random_words(length, count, outcome) ==
  IF outcome = "words" THEN First(<< ApiWords[length] >>, count)
  ELSE IF outcome = "empty" THEN << >>
  ELSE First(FallbackFor(fallback_words, length), count)

\* the texts the users send to a guessing game
GuessTexts ==
  << <<"c","a","t">>,
     <<"C","A","T">>,
     <<"d","o","g">>,
     <<"s","u","n">>,
     <<"b","o","y">>,
     <<"p","l","a","y">>,
     <<"W","o","r","d">>,
     <<"g","a","m","e">>,
     <<"n","o">>,
     <<"c","2","t">> >>

\* message.text.upper().strip() of each text
Guess == [ i \in 1..Len(GuessTexts) |-> Strip(Upper(GuessTexts[i])) ]

\* the buttons of the length, attempts and timer keyboards
LengthChoices == GUESS_MIN_LEN..(GUESS_MIN_LEN + NumLengths - 1)
AttemptChoices ==
  { Finite(n) : n \in MIN_ATTEMPTS..(MIN_ATTEMPTS + NumAttempts - 1) }
    \cup { Infinity }
TimerChoices == {"hard", "medium", "easy", "noob"}

get_timer_seconds(difficulty) ==
  CASE difficulty = "hard" -> HARD_SECONDS
    [] difficulty = "medium" -> MEDIUM_SECONDS
    [] difficulty = "easy" -> EASY_SECONDS
    [] OTHER -> 0

\* a timer test that lets the guess of the very second of the limit through
ExpiredStrictlyAfter(session) ==
  IF session.timer_difficulty = "noob" \/ session.game_start_time = NoTime
  THEN FALSE
  ELSE now - session.game_start_time
         > get_timer_seconds(session.timer_difficulty)

is_timer_expired(session) ==
  IF session.timer_difficulty = "noob" \/ session.game_start_time = NoTime
  THEN FALSE
  ELSE IF get_timer_seconds(session.timer_difficulty) = 0 THEN FALSE
  ELSE now - session.game_start_time
         >= get_timer_seconds(session.timer_difficulty)

\* the squares of get_wordle_feedback, the answer to unequal lengths, and
\* the placeholder None of its two lists
Green == "green"
Yellow == "yellow"
White == "white"
Cross == "cross"
None == ""

\* target_chars.index(char)
IndexOf(s, x) == CHOOSE k \in 1..Len(s) : s[k] = x /\ \A j \in 1..(k - 1) : s[j] # x

\* a second pass that never marks a target letter as used
SecondPassKeepsLetters(guess, feedback, target_chars, i) ==
  [ k \in 1..Len(guess) |->
      IF feedback[k] # None THEN feedback[k]
      ELSE IF Contains(target_chars, guess[k]) THEN Yellow ELSE White ]

\* the second loop of get_wordle_feedback from position i on
RECURSIVE SecondPass(_, _, _, _)
SecondPass(guess, feedback, target_chars, i) ==
  IF i > Len(guess) THEN feedback
  ELSE IF feedback[i] # None
  THEN SecondPass(guess, feedback, target_chars, i + 1)
  ELSE IF Contains(target_chars, guess[i])
  THEN SecondPass(guess, [ feedback EXCEPT ![i] = Yellow ],
                  [ target_chars EXCEPT ![IndexOf(target_chars, guess[i])] = None ],
                  i + 1)
  ELSE SecondPass(guess, [ feedback EXCEPT ![i] = White ], target_chars, i + 1)

\* a first pass that marks every position as an exact match
FirstPassAllGreen(guess, target) == [ k \in 1..Len(guess) |-> Green ]

\* the feedback list after the first loop of get_wordle_feedback
FirstPass(guess, target) ==
  [ k \in 1..Len(guess) |-> IF guess[k] = target[k] THEN Green ELSE None ]

\* target_chars after the first loop
UnmatchedChars(guess, target) ==
  [ k \in 1..Len(target) |-> IF guess[k] = target[k] THEN None ELSE target[k] ]

get_wordle_feedback(guess, target) ==
  IF Len(guess) # Len(target) THEN << Cross >>
  ELSE SecondPass(guess, FirstPass(guess, target),
                  UnmatchedChars(guess, target), 1)

\* a suspended start_new_game or game_new_word: the session it was called
\* with (of user u, or the group chat's), the length it asked for, and
\* whether its session is still the registered one
Fetch(op, u, c, length) ==
  [ op |-> op, user |-> u, chat |-> c, length |-> length, live |-> TRUE ]

\* the group chat's entry is deleted or replaced: the runs that hold the old
\* object go on with an object nothing else refers to
Detached(f) ==
  [ k \in 1..Len(f) |->
      IF f[k].chat \in GroupChats THEN [ f[k] EXCEPT !.live = FALSE ]
      ELSE f[k] ]

\* seconds pass
Tick ==
  /\ now + ClockStep <= MaxClock
  /\ now' = now + ClockStep
  /\ UNCHANGED << user_sessions, group_games, active_games, fetches, replies >>
  /\ UNCHANGED chain_vars

\* a long time passes; a request to the word service does not last that
\* long (ClientTimeout), so none is in flight
LongTick ==
  /\ fetches = << >>
  /\ now + SweepStep <= MaxSweepClock
  /\ now' = now + SweepStep
  /\ UNCHANGED << user_sessions, group_games, active_games, fetches, replies >>
  /\ UNCHANGED chain_vars

\* a sweep that deletes the sessions of the idle users and leaves their
\* entries in active_games
SweepKeepsActive ==
  LET idle(session) == now - session.last_activity > SESSION_IDLE
      inactive_users == { u \in Users : idle(user_sessions[u]) }
      inactive_groups ==
        { c \in DOMAIN group_games :
            ~group_games[c].game_active \/ idle(group_games[c]) }
  IN  /\ user_sessions' =
           [ u \in Users |->
               IF u \in inactive_users THEN NewUserSession
               ELSE user_sessions[u] ]
      /\ active_games' = active_games
      /\ group_games' = IF inactive_groups = {} THEN group_games ELSE << >>
      /\ fetches' = IF inactive_groups = {} THEN fetches
                    ELSE Detached(fetches)
      /\ UNCHANGED << replies, now >>
      /\ UNCHANGED chain_vars

\* cleanup_inactive_sessions, one run of cleanup_task's loop.  Deleting a
\* user's entry makes the user one without a session, that is one whose next
\* get_user_session constructs a fresh one.
Sweep ==
  LET idle(session) == now - session.last_activity > SESSION_IDLE
      inactive_users == { u \in Users : idle(user_sessions[u]) }
      inactive_groups ==
        { c \in DOMAIN group_games :
            ~group_games[c].game_active \/ idle(group_games[c]) }
  IN  /\ user_sessions' =
           [ u \in Users |->
               IF u \in inactive_users THEN NewUserSession
               ELSE user_sessions[u] ]
      /\ active_games' = active_games \ inactive_users
      /\ group_games' = IF inactive_groups = {} THEN group_games ELSE << >>
      /\ fetches' = IF inactive_groups = {} THEN fetches
                    ELSE Detached(fetches)
      /\ UNCHANGED << replies, now >>
      /\ UNCHANGED chain_vars

\* get_user_session: the registry after the call (the entry of a user
\* without one is the freshly constructed session)
get_user_session(u) == [ user_sessions EXCEPT ![u].last_activity = now ]

\* a handler that obtains the sender's session, answers and returns
Touch(u) ==
  /\ user_sessions' = get_user_session(u)
  /\ UNCHANGED << group_games, active_games, fetches, replies, now >>
  /\ UNCHANGED chain_vars

\* play_quick in the chat c, up to the request of get_random_words
PlayQuick(u, c) ==
  LET quick(s) == [ s EXCEPT !.word_length = QUICK_LENGTH,
                             !.max_attempts = Infinity,
                             !.timer_difficulty = "noob" ]
      full == Cardinality(active_games) >= MAX_CONCURRENT_GAMES
  IN  IF c \in GroupChats
      THEN IF c \in DOMAIN group_games /\ group_games[c].game_active
           THEN Touch(u)
           ELSE /\ ~full => Len(fetches) < MaxFetch
                /\ group_games' = (c :> quick(NewUserSession))
                /\ fetches' = IF full THEN Detached(fetches)
                              ELSE Append(Detached(fetches),
                                          Fetch("start", u, c, QUICK_LENGTH))
                /\ user_sessions' = get_user_session(u)
                /\ UNCHANGED << active_games, replies, now >>
                /\ UNCHANGED chain_vars
      ELSE IF user_sessions[u].game_active \/ u \in active_games
           THEN Touch(u)
           ELSE /\ ~full => Len(fetches) < MaxFetch
                /\ user_sessions' =
                     [ get_user_session(u) EXCEPT ![u] = quick(@) ]
                /\ fetches' = IF full THEN fetches
                              ELSE Append(fetches,
                                          Fetch("start", u, c, QUICK_LENGTH))
                /\ UNCHANGED << group_games, active_games, replies, now >>
                /\ UNCHANGED chain_vars

\* config_start: start_new_game with the sender's session, up to the request
ConfigStart(u) ==
  IF Cardinality(active_games) >= MAX_CONCURRENT_GAMES THEN Touch(u)
  ELSE /\ Len(fetches) < MaxFetch
       /\ fetches' = Append(fetches,
                            Fetch("start", u, "private",
                                  user_sessions[u].word_length))
       /\ user_sessions' = get_user_session(u)
       /\ UNCHANGED << group_games, active_games, replies, now >>
       /\ UNCHANGED chain_vars

\* game_new_word, up to the request
NewWord(u) ==
  /\ Len(fetches) < MaxFetch
  /\ fetches' = Append(fetches,
                       Fetch("new_word", u, "private",
                             user_sessions[u].word_length))
  /\ user_sessions' = get_user_session(u)
  /\ UNCHANGED << group_games, active_games, replies, now >>
  /\ UNCHANGED chain_vars

\* a beginning of a round that keeps the guesses of the round before
StartedKeepsGuesses(session, word) ==
  [ session EXCEPT !.current_word = Upper(word),
                   !.attempts = 0, !.game_active = TRUE,
                   !.game_start_time = now ]

\* the assignments that begin a round with the target word
Started(session, word) ==
  [ session EXCEPT !.current_word = Upper(word), !.guesses = << >>,
                   !.attempts = 0, !.game_active = TRUE,
                   !.game_start_time = now ]

\* the words game_new_word chooses from when the service gave none
NewWordChoices(session) ==
  LET available == FallbackFor(new_word_fallback, session.word_length)
      others == IF /\ session.current_word # NoWord
                   /\ Contains(available, session.current_word)
                   /\ Len(available) > 1
                THEN Without(available, session.current_word)
                ELSE available
  IN  { others[k] : k \in 1..(IF NumChoices <= Len(others)
                               THEN NumChoices ELSE Len(others)) }

\* start_new_game and game_new_word from the end of the request
ResumeFetch(k, outcome) ==
  LET f == fetches[k]
      rest == RemoveAt(fetches, k)
      words == get_random_words(f.length, 1, outcome)
      group == f.chat \in GroupChats
      session == IF group /\ f.live THEN group_games[f.chat]
                 ELSE user_sessions[f.user]
      targets == IF words # << >> THEN { words[1] }
                 ELSE IF f.op = "new_word" THEN NewWordChoices(session)
                 ELSE {}
  IN  /\ fetches' = rest
      /\ UNCHANGED << replies, now >>
      /\ UNCHANGED chain_vars
      /\ IF targets = {} \/ (group /\ ~f.live)
         THEN UNCHANGED << user_sessions, group_games, active_games >>
         ELSE \E word \in targets :
                IF group
                THEN /\ group_games' =
                          [ group_games EXCEPT ![f.chat] = Started(@, word) ]
                     /\ UNCHANGED << user_sessions, active_games >>
                ELSE /\ user_sessions' =
                          [ user_sessions EXCEPT ![f.user] = Started(@, word) ]
                     /\ active_games' = active_games \cup { f.user }
                     /\ UNCHANGED group_games

\* handle_length_callbacks
SetLength(u, n) ==
  /\ user_sessions' = [ get_user_session(u) EXCEPT ![u].word_length = n ]
  /\ UNCHANGED << group_games, active_games, fetches, replies, now >>
  /\ UNCHANGED chain_vars

\* handle_attempts_callbacks
SetAttempts(u, m) ==
  /\ user_sessions' = [ get_user_session(u) EXCEPT ![u].max_attempts = m ]
  /\ UNCHANGED << group_games, active_games, fetches, replies, now >>
  /\ UNCHANGED chain_vars

\* handle_timer_callbacks
SetTimer(u, d) ==
  /\ user_sessions' = [ get_user_session(u) EXCEPT ![u].timer_difficulty = d ]
  /\ UNCHANGED << group_games, active_games, fetches, replies, now >>
  /\ UNCHANGED chain_vars

\* game_stop
GameStop(u) ==
  /\ user_sessions' = [ get_user_session(u) EXCEPT ![u].game_active = FALSE ]
  /\ active_games' = active_games \ { u }
  /\ UNCHANGED << group_games, fetches, replies, now >>
  /\ UNCHANGED chain_vars

\* a guess check that lets every word through
NeverGuessed(session, guess) == FALSE

\* guess in session.guesses
AlreadyGuessed(session, guess) == Contains(session.guesses, guess)

\* admission checks without the comparison with the target's length
AdmittedAnyLength(session, guess) ==
  /\ IsAlpha(guess)
  /\ ~(Len(guess) < GUESS_MIN_LEN \/ Len(guess) > GUESS_MAX_LEN)

\* the admission checks of a guess, after the timer check
Admitted(session, guess) ==
  /\ IsAlpha(guess)
  /\ ~(Len(guess) < GUESS_MIN_LEN \/ Len(guess) > GUESS_MAX_LEN)
  /\ Len(guess) = Len(session.current_word)

\* the session after "Process guess"
Guessed(session, guess) ==
  [ session EXCEPT !.guesses = Append(@, guess), !.attempts = @ + 1 ]

\* attempts >= max_attempts and max_attempts != float('inf')
Exhausted(session) ==
  session.max_attempts.finite /\ session.attempts >= session.max_attempts.n

\* a verdict that tests the attempts on their own
VerdictBoth(session, guess) ==
  (IF guess = session.current_word THEN {"congratulations"} ELSE {})
    \cup (IF Exhausted(session) THEN {"game_over"} ELSE {})
    \cup (IF guess # session.current_word /\ ~Exhausted(session)
          THEN {"feedback"} ELSE {})

\* the branch the processed guess takes, by the closing message it answers
Verdict(session, guess) ==
  IF guess = session.current_word THEN {"congratulations"}
  ELSE IF Exhausted(session) THEN {"game_over"}
  ELSE {"feedback"}

\* handle_group_guess
GroupGuess(u, c, guess) ==
  LET group_session == group_games[c]
      next == Guessed(group_session, guess)
      said == Verdict(next, guess)
  IN  /\ user_sessions' = get_user_session(u)
      /\ UNCHANGED << active_games, now >>
      /\ UNCHANGED chain_vars
      /\ IF is_timer_expired(group_session)
         THEN /\ group_games' = << >>
              /\ fetches' = Detached(fetches)
              /\ replies' = {"time_up"}
         ELSE IF ~Admitted(group_session, guess)
         THEN UNCHANGED << group_games, fetches, replies >>
         ELSE IF AlreadyGuessed(group_session, guess)
         THEN /\ replies' = {"already_guessed"}
              /\ UNCHANGED << group_games, fetches >>
         ELSE /\ replies' = said
              /\ IF said = {"feedback"}
                 THEN /\ group_games' = [ group_games EXCEPT ![c] = next ]
                      /\ UNCHANGED fetches
                 ELSE /\ group_games' = << >>
                      /\ fetches' = Detached(fetches)

\* handle_guess with the sender's own session
OwnGuess(u, guess) ==
  LET session == get_user_session(u)[u]
      next == Guessed(session, guess)
      said == Verdict(next, guess)
      over(s) == [ s EXCEPT !.game_active = FALSE, !.current_word = NoWord ]
  IN  /\ UNCHANGED << group_games, fetches, now >>
      /\ UNCHANGED chain_vars
      /\ IF ~session.game_active \/ session.current_word = NoWord
         THEN /\ user_sessions' = get_user_session(u)
              /\ UNCHANGED << active_games, replies >>
         ELSE IF is_timer_expired(session)
         THEN /\ user_sessions' =
                   [ get_user_session(u) EXCEPT ![u].game_active = FALSE ]
              /\ active_games' = active_games \ { u }
              /\ replies' = {"time_up"}
         ELSE IF ~Admitted(session, guess)
         THEN /\ user_sessions' = get_user_session(u)
              /\ UNCHANGED << active_games, replies >>
         ELSE IF AlreadyGuessed(session, guess)
         THEN /\ replies' = {"already_guessed"}
              /\ user_sessions' = get_user_session(u)
              /\ UNCHANGED << active_games >>
         ELSE /\ replies' = said
              /\ IF said = {"feedback"}
                 THEN /\ user_sessions' = [ get_user_session(u) EXCEPT ![u] = next ]
                      /\ UNCHANGED active_games
                 ELSE /\ user_sessions' =
                           [ get_user_session(u) EXCEPT ![u] = over(next) ]
                      /\ active_games' = active_games \ { u }

\* whether handle_guess hands the message to the chain game
ToChainGame(u, c) ==
  /\ c \in GroupChats
  /\ basic_games # 0
  /\ games[basic_games].game_state = "active"
  /\ u \in DOMAIN games[basic_games].players

\* a text message of user u in the chat c that handle_guess does not hand to
\* the chain game
SubmitGuess(u, c, i) ==
  /\ ~ToChainGame(u, c)
  /\ IF ~MatchesWordPattern(GuessTexts[i]) THEN Reject
     ELSE IF /\ c \in GroupChats
             /\ c \in DOMAIN group_games
             /\ group_games[c].game_active
             /\ group_games[c].current_word # NoWord
     THEN GroupGuess(u, c, Guess[i])
     ELSE OwnGuess(u, Guess[i])

\* /stop in the chat c
Stop(u, c) ==
  LET has_individual_game == user_sessions[u].game_active
      has_group_game == c \in GroupChats /\ c \in DOMAIN group_games
      has_basic_game == c \in GroupChats /\ basic_games # 0
  IN  IF ~has_individual_game /\ ~has_group_game /\ ~has_basic_game
      THEN Touch(u)
      ELSE /\ user_sessions' = [ get_user_session(u) EXCEPT ![u].game_active = FALSE ]
           /\ active_games' = active_games \ { u }
           /\ group_games' = IF has_group_game THEN << >> ELSE group_games
           /\ fetches' = IF has_group_game THEN Detached(fetches) ELSE fetches
           /\ UNCHANGED << replies, now >>
           /\ IF has_basic_game
              THEN LET g == basic_games
                   IN  CommitChain(0, [ games EXCEPT ![g] = Cancelled(games[g]) ],
                                   ngames, timers, pending)
              ELSE UNCHANGED chain_vars

\* /stop in the group chat
StopCommand(u) == Stop(u, "group")

\* ------------------------------------------ handle_guess, chain game branch
Max(a, b) == IF a >= b THEN a ELSE b

\* a turn check that only asks whether the sender is still in the turn order
NotInTurnOrder(game, u) ==
  \A k \in 1..Len(game.turn_order) : game.turn_order[k] # u

\* the turn check of handle_basic_game_word
NotPlayersTurn(game, u) == get_current_player(game) # u

\* a budget that keeps decreasing below the floor
ScaledTimeNoFloor(total, time) ==
  IF total % 3 = 0 THEN time - TIME_STEP ELSE time

\* the shared turn time budget after the total-th accepted word
ScaledTime(total, time) ==
  IF total % 3 = 0 /\ time > TIME_FLOOR THEN Max(TIME_FLOOR, time - TIME_STEP)
  ELSE time

\* a minimum length that goes back to its first value between the steps
ScaledLengthDrops(total, length) ==
  IF total % 2 = 0 /\ length < LENGTH_CAP THEN length + 1 ELSE MIN_WORD_LENGTH

\* the minimum word length after the total-th accepted word
ScaledLength(total, length) ==
  IF total % 2 = 0 /\ length < LENGTH_CAP THEN length + 1 ELSE length

\* the assignments of an accepted word; the modulo raises ZeroDivisionError
\* on an empty turn order and the two assignments after it are not made
Accepted(game, word) ==
  LET total == game.total_words + 1
      time == ScaledTime(total, game.turn_time_left)
      upto == [ game EXCEPT
                  !.words_used = Append(game.words_used, word),
                  !.total_words = total,
                  !.last_word = word,
                  !.current_required_letter = LastChar(word),
                  !.longest_word = IF Len(word) > Len(game.longest_word)
                                   THEN word ELSE game.longest_word,
                  !.turn_time_left = time,
                  !.min_word_length = ScaledLength(total, game.min_word_length) ]
  IN  IF Len(game.turn_order) = 0 THEN upto
      ELSE [ upto EXCEPT
               !.current_turn_index =
                   (game.current_turn_index + 1) % Len(game.turn_order),
               !.current_turn_timer = time ]

\* a handler that does not look whether the word was used before
RejectionForgetsUsed(game, word, valid) ==
  CASE ~valid -> "word_not_valid"
    [] valid /\ Len(word) < game.min_word_length -> "word_too_short"
    [] valid /\ Len(word) >= game.min_word_length
         /\ game.current_required_letter # NoLetter
         /\ ~StartsWith(word, game.current_required_letter) -> "word_wrong_letter"
    [] OTHER -> ""

\* the rejection of handle_basic_game_word that applies to the word, or "" 
Rejection(game, word, valid) ==
  CASE ~valid -> "word_not_valid"
    [] valid /\ Len(word) < game.min_word_length -> "word_too_short"
    [] valid /\ Len(word) >= game.min_word_length
         /\ game.current_required_letter # NoLetter
         /\ ~StartsWith(word, game.current_required_letter) -> "word_wrong_letter"
    [] OTHER -> IF AlreadyUsed(game, word) THEN "word_used" ELSE ""

\* a text message of user u in the group chat, up to the dictionary request,
\* with at most limit requests under way at a time
SubmitWordUpTo(u, i, limit) ==
  LET g == basic_games
  IN  IF ~Routed[i] THEN Reject
      ELSE IF g = 0 \/ games[g].game_state # "active"
                \/ u \notin DOMAIN games[g].players
      THEN Reject
      ELSE LET game == games[g]
               word == Word[i]
           IN  IF get_current_player(game) = IndexError
               THEN Reject
               ELSE IF NotPlayersTurn(game, u) THEN Reject
               ELSE IF ~ValidShape(word) THEN Reject
               ELSE /\ Len(pending) < limit
                    /\ Commit(g, games, ngames, timers,
                              Append(pending,
                                     [ user |-> u, game |-> g,
                                       word |-> word ]))

SubmitWord(u, i) == SubmitWordUpTo(u, i, MaxPending)

\* handle_basic_game_word from the end of the dictionary request
ResumeWord(k, api) ==
  LET p == pending[k]
      g == p.game
      game == games[g]
      rest == RemoveAt(pending, k)
      why == Rejection(game, p.word, ApiVerdict(p.word, api))
  IN  IF why # ""
      THEN Commit(basic_games, games, ngames, timers, rest)
      ELSE Commit(basic_games, [ games EXCEPT ![g] = Accepted(game, p.word) ],
                  ngames, timers, rest)

\* ------------------------------------------------ start_basic_game_timer
At(t, pc) == timers[t].pc = pc

Goto(t, pc, g) == [ timers EXCEPT ![t] = Task(pc, g, 0, 0) ]

\* the condition of the join loop, and the code after the loop up to its
\* first await
JoinLoop(t, g, gs) ==
  LET game == gs[g]
  IN  IF game.join_time_left > 0 /\ game.game_state \in {"waiting", "joining"}
      THEN Commit(basic_games, gs, ngames, Goto(t, "join_sleep", g), pending)
      ELSE IF NumPlayers(game) < min_players
      THEN Commit(basic_games, gs, ngames, Goto(t, "cancel_send", g), pending)
      ELSE \E order \in Shuffles(game.turn_order), i \in 1..NumStartWords :
             Commit(basic_games,
                    [ gs EXCEPT ![g] = StartedWith(game, order, starting_words[i]) ],
                    ngames, Goto(t, "start_send", g), pending)

\* the condition of the turn loop
TurnLoopRuns(game) ==
  game.game_state = "active" /\ Cardinality(ActivePlayers(game)) > 1

TurnLoop(t, g, gs, reg) ==
  IF TurnLoopRuns(gs[g])
  THEN Commit(reg, gs, ngames, Goto(t, "turn_sleep", g), pending)
  ELSE Commit(reg, gs, ngames, Goto(t, "done", g), pending)

\* the check made after each sleep
TimerMustExit(reg, game) == reg = 0 \/ game.game_state = "cancelled"

\* the task's first run: look the chat up in the registry
TimerStart(t) ==
  /\ At(t, "start")
  /\ IF basic_games = 0
     THEN Commit(0, games, ngames, Goto(t, "done", 0), pending)
     ELSE JoinLoop(t, basic_games, games)

\* the end of a sleep of the join loop
TimerJoinWake(t) ==
  /\ At(t, "join_sleep")
  /\ LET g == timers[t].game
         game == [ games[g] EXCEPT !.join_time_left = @ - 1 ]
         gs == [ games EXCEPT ![g] = game ]
     IN  IF TimerMustExit(basic_games, game)
         THEN Commit(basic_games, gs, ngames, Goto(t, "done", g), pending)
         ELSE IF game.join_time_left \in {WARN_FIRST, WARN_SECOND}
         THEN Commit(basic_games, gs, ngames, Goto(t, "warn_send", g), pending)
         ELSE JoinLoop(t, g, gs)

\* the end of the send of a join warning
TimerWarnSent(t) ==
  /\ At(t, "warn_send")
  /\ JoinLoop(t, timers[t].game, games)

\* the end of the send of "Not enough players joined": the chat's registry
\* entry is deleted
TimerCancelSent(t) ==
  /\ At(t, "cancel_send")
  /\ Commit(0, games, ngames, Goto(t, "done", timers[t].game), pending)

\* the end of the send of the start announcement
TimerStartSent(t) ==
  /\ At(t, "start_send")
  /\ TurnLoop(t, timers[t].game, games, basic_games)

\* an elimination that leaves the player in the turn order
EliminatedKeepsOrder(game, u) ==
  [ game EXCEPT
      !.players = [ game.players EXCEPT ![u] = [ eliminated |-> TRUE ] ],
      !.current_turn_timer = game.turn_time_left ]

\* an elimination that does not wrap the index
EliminatedNoWrap(game, u) ==
  [ game EXCEPT
      !.players = [ game.players EXCEPT ![u] = [ eliminated |-> TRUE ] ],
      !.turn_order = ListRemove(game.turn_order, u),
      !.current_turn_timer = game.turn_time_left ]

\* an elimination that always restarts the rotation at index 0
EliminatedRestarts(game, u) ==
  [ game EXCEPT
      !.players = [ game.players EXCEPT ![u] = [ eliminated |-> TRUE ] ],
      !.turn_order = ListRemove(game.turn_order, u),
      !.current_turn_index = 0,
      !.current_turn_timer = game.turn_time_left ]

\* the elimination of the current player
Eliminated(game, u) ==
  LET order == ListRemove(game.turn_order, u)
  IN  [ game EXCEPT
          !.players = [ game.players EXCEPT ![u] = [ eliminated |-> TRUE ] ],
          !.turn_order = order,
          !.current_turn_index =
              IF game.current_turn_index >= Len(order) THEN 0
              ELSE game.current_turn_index,
          !.current_turn_timer = game.turn_time_left ]

\* the end of a sleep of the turn loop
TimerTurnWake(t) ==
  /\ At(t, "turn_sleep")
  /\ LET g == timers[t].game
         game == [ games[g] EXCEPT !.current_turn_timer = @ - 1 ]
         gs == [ games EXCEPT ![g] = game ]
         cur == get_current_player(game)
     IN  IF TimerMustExit(basic_games, game)
         THEN Commit(basic_games, gs, ngames, Goto(t, "done", g), pending)
         ELSE IF game.current_turn_timer > 0 \/ cur = 0
         THEN TurnLoop(t, g, gs, basic_games)
         ELSE IF cur = IndexError
         THEN Commit(basic_games, gs, ngames, Goto(t, "done", g), pending)
         ELSE Commit(basic_games, [ gs EXCEPT ![g] = Eliminated(game, cur) ],
                     ngames,
                     [ timers EXCEPT ![t] =
                         Task("elim_send", g, 0,
                              Cardinality(ActivePlayers(Eliminated(game, cur)))) ],
                     pending)

\* the winner the final message names: active_players[0], or 0 for none
Winner(game) ==
  IF ActivePlayers(game) = {} THEN 0
  ELSE CHOOSE u \in ActivePlayers(game) : \A v \in ActivePlayers(game) : u <= v

\* the end of the send of the elimination notice: game over, or the budget
\* reset for the next player
TimerElimSent(t) ==
  /\ At(t, "elim_send")
  /\ LET g == timers[t].game
         game == games[g]
     IN  IF Cardinality(ActivePlayers(game)) <= 1
         THEN Commit(basic_games, games, ngames,
                     [ timers EXCEPT ![t] = Task("final_send", g, Winner(game), 0) ],
                     pending)
         ELSE Commit(basic_games,
                     [ games EXCEPT ![g] =
                         [ game EXCEPT !.turn_time_left = ELIM_RESET_TIME ] ],
                     ngames, Goto(t, "state_send", g), pending)

\* the end of the send of the final message: the chat's registry entry is
\* deleted and the task returns
TimerFinalSent(t) ==
  /\ At(t, "final_send")
  /\ Commit(0, games, ngames, Goto(t, "done", timers[t].game), pending)

\* the end of the send of the game state
TimerStateSent(t) ==
  /\ At(t, "state_send")
  /\ TurnLoop(t, timers[t].game, games, basic_games)

\* ------------------------------------------------------------ specification
Next ==
  \/ \E u \in 1..NumCreators : PlayBasic(u)
  \/ \E u \in Users : BasicJoin(u)
  \/ \E u \in Users : BasicForceStart(u)
  \/ \E u \in Users : BasicCancel(u)
  \/ \E u \in Users : StopCommand(u)
  \/ \E u \in Users, i \in 1..NumTexts : SubmitWord(u, i)
  \/ \E k \in 1..Len(pending), api \in ApiOutcomes : ResumeWord(k, api)
  \/ \E t \in GameIds : TimerStart(t)
  \/ \E t \in GameIds : TimerJoinWake(t)
  \/ \E t \in GameIds : TimerWarnSent(t)
  \/ \E t \in GameIds : TimerCancelSent(t)
  \/ \E t \in GameIds : TimerStartSent(t)
  \/ \E t \in GameIds : TimerTurnWake(t)
  \/ \E t \in GameIds : TimerElimSent(t)
  \/ \E t \in GameIds : TimerFinalSent(t)
  \/ \E t \in GameIds : TimerStateSent(t)

Spec == Init /\ [][Next]_vars

\* ------------------------------------------------- the timer task, scheduled
\* a step of the timer task t
TimerStep(t) ==
  \/ TimerStart(t)
  \/ TimerJoinWake(t)
  \/ TimerWarnSent(t)
  \/ TimerCancelSent(t)
  \/ TimerStartSent(t)
  \/ TimerTurnWake(t)
  \/ TimerElimSent(t)
  \/ TimerFinalSent(t)
  \/ TimerStateSent(t)

\* The event loop runs every task that is ready: a task created by
\* create_task starts, a sleep of one second ends, and a send to the
\* messaging service returns or raises (the code catches it).
TimerFairness == \A t \in GameIds : WF_vars(TimerStep(t))

\* The members create, join, force-start and cancel the game, and send no
\* word; the timer task is scheduled fairly.
NextIdle ==
  \/ \E u \in 1..NumCreators : PlayBasic(u)
  \/ \E u \in Users : BasicJoin(u)
  \/ \E u \in Users : BasicForceStart(u)
  \/ \E u \in Users : BasicCancel(u)
  \/ \E t \in GameIds : TimerStart(t)
  \/ \E t \in GameIds : TimerJoinWake(t)
  \/ \E t \in GameIds : TimerWarnSent(t)
  \/ \E t \in GameIds : TimerCancelSent(t)
  \/ \E t \in GameIds : TimerStartSent(t)
  \/ \E t \in GameIds : TimerTurnWake(t)
  \/ \E t \in GameIds : TimerElimSent(t)
  \/ \E t \in GameIds : TimerFinalSent(t)
  \/ \E t \in GameIds : TimerStateSent(t)

SpecIdle == Init /\ [][NextIdle]_vars /\ TimerFairness

\* ------------------------------------------------ a second game in the chat
\* The chat's game is cancelled and a second one is created while the timer
\* task of the first is suspended: there are MaxRematch session objects.
\* NumRematchers members press the buttons; with two players a game ends at
\* its first elimination, so no task sends the state of a game that goes on.
InitRematch ==
  /\ InitGuess
  /\ basic_games = 0
  /\ games = [ g \in 1..MaxRematch |-> NoSession("none") ]
  /\ ngames = 0
  /\ timers = [ g \in 1..MaxRematch |-> NoTimer ]
  /\ pending = << >>

NextRematch ==
  \/ \E u \in 1..NumCreators : PlayBasic(u)
  \/ \E u \in 1..NumRematchers : BasicJoin(u)
  \/ \E u \in 1..NumCreators : BasicCancel(u)
  \/ \E t \in 1..MaxRematch : TimerStart(t)
  \/ \E t \in 1..MaxRematch : TimerJoinWake(t)
  \/ \E t \in 1..MaxRematch : TimerWarnSent(t)
  \/ \E t \in 1..MaxRematch : TimerCancelSent(t)
  \/ \E t \in 1..MaxRematch : TimerStartSent(t)
  \/ \E t \in 1..MaxRematch : TimerTurnWake(t)
  \/ \E t \in 1..MaxRematch : TimerElimSent(t)
  \/ \E t \in 1..MaxRematch : TimerFinalSent(t)

SpecRematch == InitRematch /\ [][NextRematch]_vars

\* -------------------------------------------------------- a long word chain
\* The texts of the table, one for each word, whose word does not begin with
\* its own last letter: they hold a chain that starts at the first starting
\* word and is as long as the dispatcher's filter allows (yak, KEY, YELL,
\* then lazy and the texts after it).
ChainTexts ==
  { i \in 1..Len(Texts) :
      /\ Word[i][1] # LastChar(Word[i])
      /\ \A j \in 1..(i - 1) : Word[j] # Word[i] }

\* Two players created and joined the game and the join countdown ran out:
\* the timer task started the game and sleeps in its turn loop.
InitLong ==
  /\ InitGuess
  /\ basic_games = 1
  /\ ngames = 1
  /\ games =
       [ g \in GameIds |->
           IF g = 1
           THEN StartedWith(
                  [ NewSession EXCEPT
                      !.players = [ u \in 1..2 |-> [ eliminated |-> FALSE ] ],
                      !.join_time_left = 0 ],
                  << 1, 2 >>, starting_words[1])
           ELSE NoSession("none") ]
  /\ timers = [ g \in GameIds |->
                 IF g = 1 THEN Task("turn_sleep", 1, 0, 0) ELSE NoTimer ]
  /\ pending = << >>

\* word submissions and the timer task, without Join, Force Start and Cancel
NextLong ==
  \/ \E u \in Users, i \in ChainTexts : SubmitWord(u, i)
  \/ \E k \in 1..Len(pending), api \in ApiOutcomes : ResumeWord(k, api)
  \/ \E t \in GameIds : TimerTurnWake(t)
  \/ \E t \in GameIds : TimerElimSent(t)
  \/ \E t \in GameIds : TimerFinalSent(t)

SpecLong == InitLong /\ [][NextLong]_vars

\* ------------------------------------------- two requests under way at once
\* The started two-player game with the three-letter texts, and two word
\* handlers allowed in the dictionary request at a time.
RaceLimit == 2

RaceTexts == { i \in 1..Len(Texts) : Len(Texts[i]) = 3 }

NextRace ==
  \/ \E u \in Users, i \in RaceTexts : SubmitWordUpTo(u, i, RaceLimit)
  \/ \E k \in 1..Len(pending), api \in ApiOutcomes : ResumeWord(k, api)
  \/ \E t \in GameIds : TimerTurnWake(t)
  \/ \E t \in GameIds : TimerElimSent(t)
  \/ \E t \in GameIds : TimerFinalSent(t)

SpecRace == InitLong /\ [][NextRace]_vars

\* ------------------------------------------------------ a game nearly full
\* Other members have joined the chat's game, which is in its join countdown
\* with between 1 and MaxRoom places left; the users join and cancel.
MaxRoom == 8

Joiners(n) == (NumUsers + 1)..(NumUsers + n)

InitFull ==
  /\ InitGuess
  /\ basic_games = 1
  /\ ngames = 1
  /\ \E room \in 1..MaxRoom :
       games =
         [ g \in GameIds |->
             IF g = 1
             THEN [ NewSession EXCEPT
                      !.players = [ u \in Joiners(max_players - room)
                                      |-> [ eliminated |-> FALSE ] ],
                      !.turn_order = [ j \in 1..(max_players - room)
                                         |-> NumUsers + j ],
                      !.game_state = "joining" ]
             ELSE NoSession("none") ]
  /\ timers = [ g \in GameIds |->
                 IF g = 1 THEN Task("join_sleep", 1, 0, 0) ELSE NoTimer ]
  /\ pending = << >>

NextFull ==
  \/ \E u \in Users : BasicJoin(u)
  \/ \E u \in Users : BasicCancel(u)

SpecFull == InitFull /\ [][NextFull]_vars

\* ------------------------------------------------- the difficulty scaling
\* The scaling of an accepted word is a function of the session's counters
\* alone.  The counters are drawn from their ranges, each on its own, and
\* the assignments of an accepted word are applied to them.
MaxTotal == 12

TimeValues == { t \in TIME_FLOOR..TURN_TIME : t % TIME_STEP = 0 }

InitScale ==
  /\ InitGuess
  /\ basic_games = 1
  /\ ngames = 1
  /\ timers = [ g \in GameIds |->
                 IF g = 1 THEN Task("turn_sleep", 1, 0, 0) ELSE NoTimer ]
  /\ pending = << >>
  /\ \E n \in 0..MaxTotal, time \in TimeValues,
        length \in MIN_WORD_LENGTH..LENGTH_CAP :
       games =
         [ g \in GameIds |->
             IF g = 1
             THEN [ StartedWith(
                      [ NewSession EXCEPT
                          !.players = [ u \in 1..2 |-> [ eliminated |-> FALSE ] ],
                          !.join_time_left = 0 ],
                      << 1, 2 >>, starting_words[1])
                    EXCEPT !.total_words = n,
                           !.turn_time_left = time,
                           !.current_turn_timer = time,
                           !.min_word_length = length ]
             ELSE NoSession("none") ]

\* lines 1624-1652 for the text i
AcceptWord(i) ==
  /\ games[1].total_words <= MaxTotal
  /\ games' = [ games EXCEPT ![1] = Accepted(games[1], Word[i]) ]
  /\ UNCHANGED << basic_games, ngames, timers, pending, requests >>
  /\ UNCHANGED guess_vars

NextScale == \E i \in 1..2 : AcceptWord(i)

SpecScale == InitScale /\ [][NextScale]_vars

\* ------------------------------------------------ individual guessing games
\* One user plays guessing games in the private chat; there is no chain game
\* and no group game.
NumGuessUsers == 1

GuessUsers == 1..NumGuessUsers

\* the timer buttons pressed: one tier with a limit and the one without
TimerInputs == {"hard", "noob"}

NextGuess ==
  \/ \E u \in GuessUsers : PlayQuick(u, "private")
  \/ \E u \in GuessUsers : ConfigStart(u)
  \/ \E u \in GuessUsers : NewWord(u)
  \/ \E k \in 1..Len(fetches), outcome \in FetchOutcomes :
       ResumeFetch(k, outcome)
  \/ \E u \in GuessUsers, n \in LengthChoices : SetLength(u, n)
  \/ \E u \in GuessUsers, m \in AttemptChoices : SetAttempts(u, m)
  \/ \E u \in GuessUsers, d \in TimerInputs : SetTimer(u, d)
  \/ \E u \in GuessUsers : GameStop(u)
  \/ \E u \in GuessUsers, i \in 1..Len(GuessTexts) :
       SubmitGuess(u, "private", i)
  \/ \E u \in GuessUsers : Stop(u, "private")
  \/ Tick

SpecGuess == Init /\ [][NextGuess]_vars

\* ----------------------------------------------------- group guessing games
\* The users play guessing games in the group chat: quick play, guesses and
\* /stop.  No individual game and no chain game is started.
NextGroup ==
  \/ \E u \in Users : PlayQuick(u, "group")
  \/ \E k \in 1..Len(fetches), outcome \in FetchOutcomes :
       ResumeFetch(k, outcome)
  \/ \E u \in Users, i \in 1..Len(GuessTexts) : SubmitGuess(u, "group", i)
  \/ \E u \in Users : Stop(u, "group")
  \/ Tick

SpecGroup == Init /\ [][NextGroup]_vars

\* ------------------------------------------------------ the inactivity sweep
\* One user plays quick rounds in the private chat and in the group chat
\* while hours pass and cleanup_task sweeps the registries.
SweepTexts == { i \in 1..Len(GuessTexts) : Len(GuessTexts[i]) = QUICK_LENGTH }

NextSweep ==
  \/ \E u \in GuessUsers, c \in Chats : PlayQuick(u, c)
  \/ \E k \in 1..Len(fetches), outcome \in FetchOutcomes :
       ResumeFetch(k, outcome)
  \/ \E u \in GuessUsers, c \in Chats, i \in SweepTexts : SubmitGuess(u, c, i)
  \/ Sweep
  \/ Tick
  \/ LongTick

SpecSweep == Init /\ [][NextSweep]_vars

\* ------------------------------------------- individual rounds and the sweep
\* One user starts, restarts, plays, stops and lets expire rounds in the
\* private chat while the hours pass and the sweep runs.
NextRounds ==
  \/ \E u \in GuessUsers : PlayQuick(u, "private")
  \/ \E u \in GuessUsers : ConfigStart(u)
  \/ \E u \in GuessUsers : NewWord(u)
  \/ \E k \in 1..Len(fetches), outcome \in FetchOutcomes :
       ResumeFetch(k, outcome)
  \/ \E u \in GuessUsers, m \in AttemptChoices : SetAttempts(u, m)
  \/ \E u \in GuessUsers, d \in TimerInputs : SetTimer(u, d)
  \/ \E u \in GuessUsers : GameStop(u)
  \/ \E u \in GuessUsers, i \in 1..Len(GuessTexts) :
       SubmitGuess(u, "private", i)
  \/ \E u \in GuessUsers : Stop(u, "private")
  \/ Sweep
  \/ Tick
  \/ LongTick

SpecRounds == Init /\ [][NextRounds]_vars

\* ------------------------------------------------- the ceiling on the rounds
\* The rounds of other users fill active_games up to one below the ceiling;
\* two users start, restart and give up rounds in their private chats.
Crowd == (NumUsers + 1)..(NumUsers + MAX_CONCURRENT_GAMES - 1)

CeilingUsers == 1..2

InitCeiling ==
  /\ basic_games = 0
  /\ games = [ g \in GameIds |-> NoSession("none") ]
  /\ ngames = 0
  /\ timers = [ g \in GameIds |-> NoTimer ]
  /\ pending = << >>
  /\ requests = [ u \in Users |-> << >> ]
  /\ now = ClockStep
  /\ user_sessions = [ u \in Users |-> NewUserSession ]
  /\ group_games = << >>
  /\ active_games = Crowd
  /\ fetches = << >>
  /\ replies = {}

NextCeiling ==
  \/ \E u \in CeilingUsers : PlayQuick(u, "private")
  \/ \E u \in CeilingUsers : ConfigStart(u)
  \/ \E u \in CeilingUsers : NewWord(u)
  \/ \E k \in 1..Len(fetches), outcome \in FetchOutcomes :
       ResumeFetch(k, outcome)
  \/ \E u \in CeilingUsers : GameStop(u)
  \/ \E u \in CeilingUsers : Stop(u, "private")

SpecCeiling == InitCeiling /\ [][NextCeiling]_vars

\* ------------------------------------------------------------ the limiter
\* RateLimiter.is_allowed, lines 229-230: the requests older than the window
\* are dropped from the front
RECURSIVE DropOld(_)
DropOld(q) ==
  IF q # << >> /\ now - Head(q) > RATE_LIMIT_WINDOW THEN DropOld(Tail(q))
  ELSE q

\* whether is_allowed(u), called now, returns True
is_allowed(u) == Len(DropOld(requests[u])) < RATE_LIMIT_REQUESTS

\* the record of the user after the call
Recorded(u) ==
  IF is_allowed(u) THEN Append(DropOld(requests[u]), now)
  ELSE DropOld(requests[u])

\* /ping: the limiter, then an answer
PingCommand(u) ==
  /\ requests' = [ requests EXCEPT ![u] = Recorded(u) ]
  /\ UNCHANGED << basic_games, games, ngames, timers, pending >>
  /\ UNCHANGED guess_vars

\* One user sends /ping and presses the buttons of the guessing game in the
\* private chat while seconds and hours pass.
NextLimit ==
  \/ \E u \in GuessUsers : PingCommand(u)
  \/ \E u \in GuessUsers : PlayQuick(u, "private")
  \/ \E k \in 1..Len(fetches), outcome \in FetchOutcomes :
       ResumeFetch(k, outcome)
  \/ \E u \in GuessUsers : GameStop(u)
  \/ Tick
  \/ LongTick

SpecLimit == Init /\ [][NextLimit]_vars

\* ------------------------------------------------------- the feedback lines
\* get_wordle_feedback is a function of the guess and the target alone.  A
\* round is drawn with a target and one guess of the same length counted,
\* both from the words over a small alphabet or the pair EXCEL / LEVEL, and
\* the feedback lines of the guess handler are rendered for it.
MaxFeedbackLen == 4

FeedbackAlphabet == {"A", "B", "C"}

FeedbackWords ==
  UNION { [ 1..n -> FeedbackAlphabet ] : n \in 1..MaxFeedbackLen }

LEVEL == <<"L","E","V","E","L">>
EXCEL == <<"E","X","C","E","L">>

FeedbackPairs ==
  { << g, t >> \in FeedbackWords \X FeedbackWords : Len(g) = Len(t) }
    \cup { << EXCEL, LEVEL >> }

InitFeedback ==
  /\ basic_games = 0
  /\ games = [ g \in GameIds |-> NoSession("none") ]
  /\ ngames = 0
  /\ timers = [ g \in GameIds |-> NoTimer ]
  /\ pending = << >>
  /\ requests = [ u \in Users |-> << >> ]
  /\ group_games = << >>
  /\ active_games = {1}
  /\ fetches = << >>
  /\ replies = << >>
  /\ now = ClockStep
  /\ \E p \in FeedbackPairs :
       user_sessions =
         [ u \in Users |->
             IF u = 1
             THEN [ NewUserSession EXCEPT
                      !.current_word = p[2], !.guesses = << p[1] >>,
                      !.attempts = 1, !.game_active = TRUE,
                      !.word_length = Len(p[2]), !.game_start_time = now ]
             ELSE NewUserSession ]

\* the cumulative feedback of handle_guess: one line for each guess made
FeedbackLines(session) ==
  [ k \in 1..Len(session.guesses) |->
      get_wordle_feedback(session.guesses[k], session.current_word) ]

ShowFeedback(u) ==
  /\ replies = << >>
  /\ replies' = FeedbackLines(user_sessions[u])
  /\ UNCHANGED << user_sessions, group_games, active_games, fetches, now >>
  /\ UNCHANGED chain_vars

NextFeedback == \E u \in GuessUsers : ShowFeedback(u)

SpecFeedback == InitFeedback /\ [][NextFeedback]_vars

\* ------------------------------------------------------------------ claims
Range(s) == { s[k] : k \in 1..Len(s) }

\* a slot that holds a session (a session always has its creator as a player)
IsSession(game) == DOMAIN game.players # {}

TimerOf(g) == { t \in GameIds : TimerAlive(timers[t]) /\ timers[t].game = g }

\* C1: in every reachable state the turn order of a session holds exactly the
\* players whose eliminated flag is false, each once.
C1_TurnOrderIsActivePlayers ==
  \A g \in GameIds :
    /\ Range(games[g].turn_order) = ActivePlayers(games[g])
    /\ Len(games[g].turn_order) = Cardinality(ActivePlayers(games[g]))

\* a game of three players went on after one of them was eliminated and a word
\* was accepted
C1_Witness ==
  \E g \in GameIds :
    /\ games[g].game_state = "active"
    /\ Cardinality(DOMAIN games[g].players) = 3
    /\ Cardinality(ActivePlayers(games[g])) = 2
    /\ games[g].total_words >= 1
    /\ \E t \in TimerOf(g) : timers[t].pc = "turn_sleep"

\* C2: whenever the turn order of a session is not empty, the current turn
\* index is an index of it (0-based).
C2_TurnIndexValid ==
  \A g \in GameIds :
    Len(games[g].turn_order) > 0 =>
      /\ 0 <= games[g].current_turn_index
      /\ games[g].current_turn_index < Len(games[g].turn_order)

\* the third of three players, holding the turn after two accepted words, has
\* just been eliminated and the index is back at 0
C2_Witness ==
  \E g \in GameIds, t \in GameIds :
    /\ timers[t].pc = "elim_send" /\ timers[t].game = g /\ timers[t].left = 2
    /\ Cardinality(DOMAIN games[g].players) = 3
    /\ games[g].total_words = 2
    /\ games[g].current_turn_index = 0
    /\ pending = << >>

\* C3: over the lifetime of a session the shared turn time budget never
\* increases from one state to the next and is never below 15.
C3_BudgetNeverIncreases ==
  /\ [](\A g \in GameIds :
          IsSession(games[g]) => games[g].turn_time_left >= TIME_FLOOR)
  /\ [][\A g \in GameIds :
          IsSession(games[g]) /\ IsSession(games'[g]) =>
            games'[g].turn_time_left <= games[g].turn_time_left]_vars

\* a member of an active game who does not hold the turn
OutOfTurn(u) ==
  /\ basic_games # 0
  /\ games[basic_games].game_state = "active"
  /\ u \in DOMAIN games[basic_games].players
  /\ get_current_player(games[basic_games]) # u

\* C4: a word sent by a player who does not hold the turn of an active game
\* changes no field of the session: the handler returns at its turn check,
\* before the dictionary request, and no later run of it exists.
C4_OutOfTurnChangesNothing ==
  \A u \in Users, i \in 1..NumTexts :
    OutOfTurn(u) => ~ENABLED (SubmitWord(u, i) /\ vars' # vars)

\* in an active game of three players for which a word was accepted, the
\* turn-holder's next word is at its dictionary request: a word of any other
\* player is out of turn
C4_Witness ==
  /\ basic_games # 0
  /\ games[basic_games].game_state = "active"
  /\ Len(games[basic_games].turn_order) = 3
  /\ games[basic_games].total_words >= 1
  /\ Len(pending) = 1
  /\ pending[1].game = basic_games
  /\ \E u \in Users : OutOfTurn(u) /\ u # pending[1].user

\* the run of handle_basic_game_word k that accepts its word
Accepts(k, api) ==
  /\ ResumeWord(k, api)
  /\ Rejection(games[pending[k].game], pending[k].word,
               ApiVerdict(pending[k].word, api)) = ""

\* C5: a word is accepted only if, at the moment of acceptance, its sender
\* still holds the turn, is not eliminated, and the session is still in the
\* registry.
C5_AcceptedOnlyInTurn ==
  [][\A k \in 1..Len(pending), api \in ApiOutcomes :
       Accepts(k, api) =>
         LET p == pending[k]
             game == games[p.game]
         IN  /\ get_current_player(game) = p.user
             /\ ~game.players[p.user].eliminated
             /\ basic_games = p.game]_vars

\* C6: the start of a game (shuffle, starting word, required letter) is made
\* once: the timer task does not start a game that is already active.
C6_StartedOnce ==
  [][\A t \in GameIds :
       timers[t].pc # "start_send" /\ timers'[t].pc = "start_send" =>
         games[timers'[t].game].game_state # "active"]_vars

\* C7: the phase of a cancelled session never changes again.
C7_CancelledStaysCancelled ==
  [][\A g \in GameIds :
       games[g].game_state = "cancelled" =>
         games'[g].game_state = "cancelled"]_vars

\* the step of timer task t that eliminates the current player
Eliminates(t) ==
  timers[t].pc = "turn_sleep" /\ timers'[t].pc = "elim_send"

\* C8: when the countdown of the current player reaches 0 that player is
\* marked eliminated and removed from the turn order, and the turn passes to
\* the player who followed in the turn order, the first one after the last.
C8_EliminationPassesTurn ==
  [][\A t \in GameIds :
       LET g == timers[t].game
           old == games[g]
           new == games'[g]
           cur == get_current_player(old)
       IN  /\ ( /\ timers[t].pc = "turn_sleep" /\ timers'[t] # timers[t]
                /\ ~TimerMustExit(basic_games, old)
                /\ old.current_turn_timer <= 1
                /\ cur \in Users )
               => Eliminates(t)
           /\ Eliminates(t) =>
                /\ old.current_turn_timer <= 1
                /\ new.players[cur].eliminated
                /\ new.players = [ old.players EXCEPT ![cur].eliminated = TRUE ]
                /\ new.turn_order = ListRemove(old.turn_order, cur)
                /\ get_current_player(new) = get_next_player(old)]_vars

\* [A,B,C] with C holding the turn after two accepted words: C has just been
\* eliminated, the turn order is [A,B] and A holds the turn
C8_Witness ==
  \E t \in GameIds :
    LET game == games[timers[t].game]
    IN  /\ timers[t].pc = "elim_send"
        /\ game.turn_order = << 1, 2 >>
        /\ DOMAIN game.players = {1, 2, 3}
        /\ game.players[3].eliminated
        /\ game.total_words = 2
        /\ get_current_player(game) = 1

\* C9: when an elimination leaves at most one player in the game, the next
\* step of the timer task is the end of the game: the final message, after
\* which the registry entry is deleted and the task returns.
C9_LastSurvivorEndsGame ==
  [][\A t \in GameIds :
       /\ ( /\ timers[t].pc = "elim_send" /\ timers[t].left <= 1
            /\ timers'[t] # timers[t] )
           => /\ timers'[t].pc = "final_send"
              /\ ActivePlayers(games[timers[t].game]) \subseteq {timers'[t].winner}
       /\ ( timers[t].pc = "final_send" /\ timers'[t] # timers[t] )
           => timers'[t].pc = "done" /\ basic_games' = 0]_vars

\* C10: a session that has fewer than 2 players when the join countdown ends
\* never becomes active.
C10_TooFewPlayersNeverActive ==
  [][\A t \in GameIds :
       timers[t].pc = "cancel_send" =>
         games'[timers[t].game].game_state # "active"]_vars

\* C11: over the lifetime of a session the minimum word length never
\* decreases from one state to the next and never exceeds 9.
C11_MinLengthNeverDecreases ==
  /\ [](\A g \in GameIds :
          IsSession(games[g]) => games[g].min_word_length <= LENGTH_CAP)
  /\ [][\A g \in GameIds :
          IsSession(games[g]) /\ IsSession(games'[g]) =>
            games'[g].min_word_length >= games[g].min_word_length]_vars

\* the twelfth word of a chain was accepted and the minimum length is 9
C11_Witness ==
  \E g \in GameIds :
    /\ games[g].total_words = 12
    /\ games[g].min_word_length = LENGTH_CAP

Min(a, b) == IF a <= b THEN a ELSE b

\* C12: on each accepted word, if the new total is a multiple of 3 the turn
\* time budget decreases by 5 but not below 15, and if it is a multiple of 2
\* the minimum word length increases by 1 but not above 9; otherwise each
\* keeps its value.  From 40 and 3, the 2nd accepted word gives the minimum
\* length 4 and the 3rd the budget 35.
C12_ScalingRule ==
  [][\A g \in GameIds :
       LET old == games[g]
           new == games'[g]
           total == old.total_words + 1
       IN  new.total_words = total /\ IsSession(old) =>
             /\ new.turn_time_left =
                  IF total % 3 = 0 THEN Max(15, old.turn_time_left - 5)
                  ELSE old.turn_time_left
             /\ new.min_word_length =
                  IF total % 2 = 0 THEN Min(9, old.min_word_length + 1)
                  ELSE old.min_word_length
             /\ (total = 2 /\ old.min_word_length = 3
                   => new.min_word_length = 4)
             /\ (total = 3 /\ old.turn_time_left = 40
                   => new.turn_time_left = 35)]_vars

\* three words were accepted from the first values 40 and 3: the budget is 35
\* and the minimum length 4
C12_Witness ==
  /\ Len(games[1].words_used) = 3
  /\ games[1].total_words = 3
  /\ games[1].turn_time_left = 35
  /\ games[1].min_word_length = 4

\* the word fails one of the checks: it is no word for the dictionary, it is
\* shorter than the minimum length, it does not begin with the required
\* letter, or it was used before
FailsACheck(game, word, api) ==
  \/ ~ApiVerdict(word, api)
  \/ Len(word) < game.min_word_length
  \/ /\ game.current_required_letter # NoLetter
     /\ word[1] # game.current_required_letter
  \/ \E k \in 1..Len(game.words_used) : Upper(game.words_used[k]) = Upper(word)

\* C13: a word of the turn-holder that fails a check is rejected and leaves
\* the session as it was: in no state can the run of the handler that ends
\* the dictionary request change a field of the session, the registry or the
\* timer task, and a word the shape check refuses changes nothing at all.
C13_RejectedWordChangesNothing ==
  /\ \A k \in 1..Len(pending), api \in ApiOutcomes :
       LET g == pending[k].game
       IN  FailsACheck(games[g], pending[k].word, api) =>
             ~ENABLED ( /\ ResumeWord(k, api)
                        /\ \/ IsSession(games'[g]) /\ games'[g] # games[g]
                           \/ basic_games' # basic_games
                           \/ timers' # timers )
  /\ \A u \in Users, i \in 1..Len(Texts) :
       ( /\ basic_games # 0
         /\ get_current_player(games[basic_games]) = u
         /\ ~ValidShape(Word[i]) )
       => ~ENABLED (SubmitWord(u, i) /\ vars' # vars)

\* the turn-holder sent a word that was accepted before, long enough and with
\* the required letter, and the dictionary request is under way
C13_Witness ==
  \E k \in 1..Len(pending) :
    LET p == pending[k]
        game == games[p.game]
    IN  /\ get_current_player(game) = p.user
        /\ basic_games = p.game
        /\ Len(p.word) >= game.min_word_length
        /\ p.word[1] = game.current_required_letter
        /\ \E j \in 1..Len(game.words_used) : game.words_used[j] = p.word

\* C14: every accepted word begins with the last letter of the word accepted
\* before it, or with the last letter of the starting word when it is the
\* first accepted word.
C14_WordsFormAChain ==
  [][\A k \in 1..Len(pending), api \in ApiOutcomes :
       Accepts(k, api) =>
         LET game == games[pending[k].game]
             before == IF game.words_used = << >> THEN game.last_word
                       ELSE game.words_used[Len(game.words_used)]
         IN  pending[k].word[1] = before[Len(before)]]_vars

\* C15: no word is accepted twice in one game: the list of used words only
\* grows and never holds two entries that are equal ignoring case.
C15_NoWordUsedTwice ==
  /\ [](\A g \in GameIds :
          \A j, k \in 1..Len(games[g].words_used) :
            Lower(games[g].words_used[j]) = Lower(games[g].words_used[k])
              => j = k)
  /\ [][\A g \in GameIds :
          IsSession(games[g]) /\ IsSession(games'[g]) =>
            /\ Len(games'[g].words_used) >= Len(games[g].words_used)
            /\ SubSeq(games'[g].words_used, 1, Len(games[g].words_used))
                 = games[g].words_used]_vars

\* a word that begins and ends with the same letter was sent twice while the
\* sender held the turn: one of the two was accepted and the turn moved on,
\* the other is still at its dictionary request
C15_Witness ==
  \E k \in 1..Len(pending) :
    LET game == games[pending[k].game]
    IN  /\ game.words_used = << pending[k].word >>
        /\ pending[k].word[1] = game.current_required_letter
        /\ get_current_player(game) # pending[k].user
        /\ ~game.players[pending[k].user].eliminated

\* C16: the registry holds at most one session for the chat, and a
\* play_basic in a chat that has a game is refused: in no state with a
\* registered game can it create a session, start a timer task or change the
\* session the chat has.
C16_OneGamePerChat ==
  /\ basic_games \in {0} \cup { g \in GameIds : IsSession(games[g]) }
  /\ basic_games # 0 =>
       \A u \in Users : ~ENABLED (PlayBasic(u) /\ vars' # vars)

\* the chat has an active game in which a word was accepted and whose timer
\* task sleeps in the turn loop
C16_Witness ==
  /\ basic_games # 0
  /\ games[basic_games].game_state = "active"
  /\ games[basic_games].total_words = 1
  /\ \E t \in TimerOf(basic_games) : timers[t].pc = "turn_sleep"

\* the guess sessions: the users' own and the group chat's
GuessSessions ==
  { user_sessions[u] : u \in Users }
    \cup { group_games[c] : c \in DOMAIN group_games }

\* C17: in every reachable state a guess session whose attempt limit is
\* finite has made at most that many attempts, whatever start,
\* configuration, guess and stop actions led to the state.
C17_AttemptsWithinLimit ==
  \A s \in GuessSessions :
    s.max_attempts.finite => s.attempts <= s.max_attempts.n

\* C18: while a guess session is active, its target word has as many
\* letters as the session's configured word length, whatever start,
\* configuration and guess actions led to the state.
C18_TargetHasConfiguredLength ==
  \A s \in GuessSessions :
    s.game_active => Len(s.current_word) = s.word_length

\* C19: the guesses of a guess session, the user's own or the group chat's,
\* never hold the same word twice, letter case ignored.
C19_NoGuessTwice ==
  \A s \in GuessSessions :
    \A j, k \in 1..Len(s.guesses) :
      j # k => Upper(s.guesses[j]) # Upper(s.guesses[k])

\* a guess that an active session already holds was sent again and refused
C19_Witness ==
  /\ replies = {"already_guessed"}
  /\ \E s \in GuessSessions : s.game_active /\ s.guesses # << >>

\* the text i of user u would be processed as the guess that both equals
\* the target and uses up the last allowed attempt
LastAttemptHit(u, i) ==
  LET session == user_sessions[u]
  IN  /\ MatchesWordPattern(GuessTexts[i])
      /\ session.game_active
      /\ session.current_word # NoWord
      /\ ~is_timer_expired(session)
      /\ Admitted(session, Guess[i])
      /\ ~Contains(session.guesses, Guess[i])
      /\ Guess[i] = session.current_word
      /\ session.max_attempts.finite
      /\ session.attempts + 1 >= session.max_attempts.n

\* C20: no guess is answered with both the win message and the
\* attempts-exhausted message, and a guess that equals the target on the
\* last allowed attempt ends the round as a win: the win message alone is
\* answered and the round is over.
C20_WinOnLastAttemptIsWin ==
  /\ [](~({"congratulations", "game_over"} \subseteq replies))
  /\ [][\A u \in GuessUsers, i \in 1..Len(GuessTexts) :
          LastAttemptHit(u, i) /\ SubmitGuess(u, "private", i)
            => /\ replies' = {"congratulations"}
               /\ ~user_sessions'[u].game_active
               /\ u \notin active_games']_vars

\* a round was won by the guess that used up the last allowed attempt
C20_Witness ==
  /\ replies = {"congratulations"}
  /\ \E u \in GuessUsers :
       LET session == user_sessions[u]
       IN  /\ ~session.game_active
           /\ session.current_word = NoWord
           /\ session.max_attempts.finite
           /\ session.attempts = session.max_attempts.n
           /\ Len(session.guesses) = session.attempts

\* the tier of the session has a limit and the time since the round's start
\* has reached it
TimeIsUp(session) ==
  /\ session.timer_difficulty \in {"hard", "medium", "easy"}
  /\ now - session.game_start_time
       >= get_timer_seconds(session.timer_difficulty)

\* the text i of user u reaches the guess branch of handle_guess for the
\* user's own running round
ReachesOwnRound(u, i) ==
  /\ MatchesWordPattern(GuessTexts[i])
  /\ user_sessions[u].game_active
  /\ user_sessions[u].current_word # NoWord

\* C21: a guess that arrives for a timed round when the time since the
\* round's start is at least the tier's duration is not appended to the
\* guesses, not counted as an attempt and not answered as a win: the session
\* becomes inactive and the time-up message is answered.  In the untimed
\* tier no guess ends a round with the time-up message.
C21_LateGuessExpires ==
  \A u \in GuessUsers, i \in 1..Len(GuessTexts) :
    ReachesOwnRound(u, i)
      => /\ TimeIsUp(user_sessions[u])
             => ~ENABLED
                  /\ SubmitGuess(u, "private", i)
                  /\ ~ /\ user_sessions'[u].guesses = user_sessions[u].guesses
                       /\ user_sessions'[u].attempts = user_sessions[u].attempts
                       /\ ~user_sessions'[u].game_active
                       /\ replies' = {"time_up"}
         /\ user_sessions[u].timer_difficulty = "noob"
             => ~ENABLED
                  /\ SubmitGuess(u, "private", i)
                  /\ ~user_sessions'[u].game_active
                  /\ replies' = {"time_up"}

\* a timed round ended because a guess arrived after its time was up
C21_Witness ==
  /\ replies = {"time_up"}
  /\ \E u \in GuessUsers :
       /\ ~user_sessions[u].game_active
       /\ u \notin active_games
       /\ user_sessions[u].current_word # NoWord
       /\ TimeIsUp(user_sessions[u])

\* the running round a text of user u in the chat c is a guess for: the
\* group chat's, or else the user's own
HasGroupRound(c) ==
  /\ c \in GroupChats
  /\ c \in DOMAIN group_games
  /\ group_games[c].game_active
  /\ group_games[c].current_word # NoWord

RoundOf(u, c) == IF HasGroupRound(c) THEN group_games[c] ELSE user_sessions[u]

\* the text i is not alphabetic, or its length is outside 3..7 or differs
\* from the target's, or it was already guessed
Inadmissible(session, i) ==
  \/ ~IsAlpha(Guess[i])
  \/ Len(Guess[i]) \notin GUESS_MIN_LEN..GUESS_MAX_LEN
  \/ Len(Guess[i]) # Len(session.current_word)
  \/ \E k \in 1..Len(session.guesses) :
       Upper(session.guesses[k]) = Upper(Guess[i])

\* the step leaves target, guesses, attempts and active flag of the round of
\* u in c as they are
RoundUnchanged(u, c) ==
  LET before == RoundOf(u, c)
      after == IF HasGroupRound(c)
               THEN IF c \in DOMAIN group_games'
                    THEN group_games'[c]
                    ELSE [ before EXCEPT !.game_active = FALSE ]
               ELSE user_sessions'[u]
  IN  /\ after.current_word = before.current_word
      /\ after.guesses = before.guesses
      /\ after.attempts = before.attempts
      /\ after.game_active = before.game_active

\* C22 as stated: a text that fails an admission check changes nothing of
\* the running round it is sent to, whenever it arrives.
C22_InadmissibleChangesNothing ==
  \A u \in Users, c \in Chats, i \in 1..Len(GuessTexts) :
    RoundOf(u, c).game_active /\ Inadmissible(RoundOf(u, c), i)
      => ~ENABLED (SubmitGuess(u, c, i) /\ ~RoundUnchanged(u, c))

\* C22, amended: a text that fails an admission check and arrives while the
\* round's time is not up changes nothing of the running round it is sent
\* to: target, guesses, attempts and active flag stay as they are.
C22_InadmissibleInTimeChangesNothing ==
  \A u \in Users, c \in Chats, i \in 1..Len(GuessTexts) :
    /\ RoundOf(u, c).game_active
    /\ Inadmissible(RoundOf(u, c), i)
    /\ ~TimeIsUp(RoundOf(u, c))
    => ~ENABLED (SubmitGuess(u, c, i) /\ ~RoundUnchanged(u, c))

\* a word already guessed was sent again to a round with two guesses made,
\* in time, and refused
C22_Witness ==
  /\ replies = {"already_guessed"}
  /\ \E u \in GuessUsers :
       /\ user_sessions[u].game_active
       /\ Len(user_sessions[u].guesses) >= 2
       /\ user_sessions[u].attempts = Len(user_sessions[u].guesses)
       /\ ~TimeIsUp(user_sessions[u])

\* C23: a round that has ended, as won, lost, expired or stopped, leaves its
\* session with the active flag cleared and the target word cleared: a
\* session that is not active holds no target word.
C23_EndedRoundHoldsNoTarget ==
  \A s \in GuessSessions : ~s.game_active => s.current_word = NoWord

\* the number of positions of s that satisfy the test
CountWhere(s, Test(_)) == Cardinality({ p \in 1..Len(s) : Test(p) })

\* C24: for a guess and a target of equal length the feedback has exactly
\* one symbol for each position, and a position is marked as exact match if
\* and only if guess and target agree there; the feedback of a word against
\* itself is all exact matches.
C24_ExactIffEqual ==
  \A k \in 1..Len(replies) :
    LET guess == user_sessions[1].guesses[k]
        target == user_sessions[1].current_word
        line == replies[k]
    IN  /\ Len(line) = Len(guess)
        /\ \A p \in 1..Len(line) :
             /\ line[p] \in {Green, Yellow, White}
             /\ line[p] = Green <=> guess[p] = target[p]
        /\ guess = target => line = [ p \in 1..Len(guess) |-> Green ]

\* the feedback of a guess that agrees with the target at some positions and
\* differs at others has been rendered
C24_Witness ==
  /\ Len(replies) = 1
  /\ \E p, q \in 1..Len(replies[1]) :
       /\ replies[1][p] = Green
       /\ replies[1][q] # Green
       /\ user_sessions[1].guesses[1][q] # user_sessions[1].current_word[q]

\* C25: for a guess and a target of equal length and for every letter, the
\* positions of the guess that hold the letter and are marked exact or
\* present are at most as many as the letter's occurrences in the target;
\* the guess EXCEL against the target LEVEL is marked present, absent,
\* absent, exact, exact.
C25_MarksWithinOccurrences ==
  \A k \in 1..Len(replies) :
    LET guess == user_sessions[1].guesses[k]
        target == user_sessions[1].current_word
        line == replies[k]
    IN  /\ \A x \in Range(guess) \cup Range(target) :
             CountWhere(guess, LAMBDA p : guess[p] = x /\ line[p] \in {Green, Yellow})
               <= CountWhere(target, LAMBDA p : target[p] = x)
        /\ guess = EXCEL /\ target = LEVEL
             => line = << Yellow, White, White, Green, Green >>

\* the feedback of a guess with more copies of a letter than the target
\* holds has been rendered: a copy is marked absent although the letter is
\* in the target
C25_Witness ==
  /\ Len(replies) = 1
  /\ \E p, q \in 1..Len(replies[1]) :
       /\ replies[1][p] = White
       /\ replies[1][q] \in {Green, Yellow}
       /\ user_sessions[1].guesses[1][p] = user_sessions[1].guesses[1][q]
       /\ user_sessions[1].guesses[1][p] \in Range(user_sessions[1].current_word)

\* C26: the inactivity sweep removes a guess session, a user's or a group
\* chat's, only if the session has had no activity for more than one hour:
\* no run of the sweep removes a group chat's session whose last activity is
\* at most an hour old, or resets a user's session whose last activity is at
\* most an hour old.
RecentlyActive(session) == now - session.last_activity <= SESSION_IDLE

C26_SweepRemovesOnlyIdleSessions ==
  /\ \A c \in DOMAIN group_games :
       RecentlyActive(group_games[c])
         => ~ENABLED (Sweep /\ c \notin DOMAIN group_games')
  /\ \A u \in Users :
       RecentlyActive(user_sessions[u])
         => ~ENABLED (Sweep /\ user_sessions'[u] # user_sessions[u])

\* the part of C26 about the users' sessions
C26_UserPart ==
  \A u \in Users :
    RecentlyActive(user_sessions[u])
      => ~ENABLED (Sweep /\ user_sessions'[u] # user_sessions[u])

\* a sweep is about to reset a user's round
C26_UserSwept ==
  \E u \in Users :
    /\ user_sessions[u].game_active
    /\ ENABLED (Sweep /\ ~user_sessions'[u].game_active)

\* C27: the number of concurrently active individual guess games never
\* exceeds the ceiling MAX_CONCURRENT_GAMES, whatever the interleaving of
\* starts and new-word actions.
C27_ActiveGamesWithinCeiling ==
  Cardinality(active_games) <= MAX_CONCURRENT_GAMES

\* C28: every inbound action passes the rate limiter first, and an action of
\* a user the limiter refuses changes no game state: while the limiter
\* refuses a user, no start of a guess game, of a chain game, and no stop of
\* a round by that user changes a session, a registry or the set of active
\* games.
GameState ==
  << basic_games, games, ngames, group_games, active_games, fetches,
     [ u \in Users |-> [ user_sessions[u] EXCEPT !.last_activity = 0 ] ] >>

C28_RefusedUserChangesNothing ==
  \A u \in Users :
    ~is_allowed(u) =>
      /\ ~ENABLED (PlayQuick(u, "private") /\ GameState' # GameState)
      /\ ~ENABLED (GameStop(u) /\ GameState' # GameState)
      /\ ~ENABLED (PlayBasic(u) /\ GameState' # GameState)

\* the limiter refuses a user who holds a round
C28_Refused ==
  \E u \in Users : ~is_allowed(u) /\ user_sessions[u].game_active

\* the outcomes of the dictionary request that are failures of the
\* validator: a response with an error status, and an exception (a timeout
\* of the request raises one)
ValidatorFailures == {"statusOther", "exception"}

\* the word of the run k is one of the turn-holder of the chat's active game,
\* alphabetic, of the current minimum length at least, begins with the
\* required letter and was not used
LegalButForTheValidator(k) ==
  LET p == pending[k]
      game == games[p.game]
  IN  /\ basic_games = p.game
      /\ game.game_state = "active"
      /\ get_current_player(game) = p.user
      /\ IsAlpha(p.word)
      /\ Len(p.word) >= game.min_word_length
      /\ StartsWith(p.word, game.current_required_letter)
      /\ ~AlreadyUsed(game, p.word)

\* the run k ends without its word appended to the used words
NotAccepted(k) ==
  LET p == pending[k]
  IN  games'[p.game].words_used # Append(games[p.game].words_used, p.word)

\* C29: when the dictionary validator fails, by an error response, an
\* exception or a timeout, a word of the turn-holder that is alphabetic, at
\* least the current minimum length long, begins with the required letter
\* and is unused is accepted.
C29_ValidatorFailureAcceptsLegalWord ==
  \A k \in 1..Len(pending), api \in ValidatorFailures :
    LegalButForTheValidator(k) => ~ENABLED (ResumeWord(k, api) /\ NotAccepted(k))

\* the part of C29 about a request that raises
C29_ExceptionPart ==
  \A k \in 1..Len(pending) :
    LegalButForTheValidator(k)
      => ~ENABLED (ResumeWord(k, "exception") /\ NotAccepted(k))

\* a legal word of the turn-holder is at its dictionary request
C29_LegalWordPending ==
  \E k \in 1..Len(pending) : LegalButForTheValidator(k)

\* the countdown of the session g and its budget differ after the step
CountdownOffBudget(g) ==
  /\ IsSession(games'[g])
  /\ games'[g].current_turn_timer # games'[g].turn_time_left

\* C30: whenever the turn passes to a new current player, by an accepted
\* word or by an elimination, the countdown is set to the shared budget: at
\* the end of the run that accepts a word, and at the end of the run of the
\* timer task that eliminated a player and goes on with the game,
\* current_turn_timer equals turn_time_left.
C30_CountdownEqualsBudget ==
  /\ \A k \in 1..Len(pending), api \in ApiOutcomes :
       games[pending[k].game].turn_order # << >>
         => ~ENABLED (Accepts(k, api) /\ CountdownOffBudget(pending[k].game))
  /\ \A t \in GameIds :
       ~ENABLED ( /\ TimerElimSent(t)
                  /\ timers'[t].pc = "state_send"
                  /\ CountdownOffBudget(timers[t].game) )

\* the part of C30 about an accepted word
C30_AcceptedWordPart ==
  \A k \in 1..Len(pending), api \in ApiOutcomes :
    games[pending[k].game].turn_order # << >>
      => ~ENABLED (Accepts(k, api) /\ CountdownOffBudget(pending[k].game))

\* the 0-based index of the player u in the turn order, which holds u
IndexIn(order, u) == (CHOOSE j \in 1..Len(order) : order[j] = u) - 1

\* C31: after a word is accepted from the player at index i of a turn order
\* of length n, the turn-holder is the player at index (i + 1) mod n: no run
\* of the word handler that accepts the word of a player of the turn order
\* leaves the turn index at another value.
C31_TurnAdvancesFromSender ==
  \A k \in 1..Len(pending), api \in ApiOutcomes :
    LET p == pending[k]
        order == games[p.game].turn_order
    IN  Contains(order, p.user) =>
          ~ENABLED ( /\ Accepts(k, api)
                     /\ IsSession(games'[p.game])
                     /\ games'[p.game].current_turn_index
                          # (IndexIn(order, p.user) + 1) % Len(order) )

\* the sender of the word at its dictionary request holds the turn
SenderHoldsTurn(k) ==
  get_current_player(games[pending[k].game]) = pending[k].user

\* the part of C31 about a sender who still holds the turn when the request
\* ends
C31_TurnAdvancesFromHolder ==
  \A k \in 1..Len(pending), api \in ApiOutcomes :
    LET p == pending[k]
        order == games[p.game].turn_order
    IN  SenderHoldsTurn(k) =>
          ~ENABLED ( /\ Accepts(k, api)
                     /\ IsSession(games'[p.game])
                     /\ games'[p.game].current_turn_index
                          # (IndexIn(order, p.user) + 1) % Len(order) )

\* C32: join and force start take effect only while the chain game is in its
\* joining phase: once the chat's session is active, no join adds a player
\* and no force start reshuffles the turn order or changes the required
\* letter.
C32_JoinAndForceStartOnlyWhileJoining ==
  (basic_games # 0 /\ games[basic_games].game_state = "active") =>
    LET g == basic_games
    IN  \A u \in Users :
          /\ ~ENABLED ( /\ BasicJoin(u)
                        /\ DOMAIN games'[g].players # DOMAIN games[g].players )
          /\ ~ENABLED ( /\ BasicForceStart(u)
                        /\ \/ games'[g].turn_order # games[g].turn_order
                           \/ games'[g].current_required_letter
                                # games[g].current_required_letter )

\* C33: a join adds the caller to the players and to the end of the turn
\* order exactly when the caller is not a player and the game has fewer than
\* 50 players, and otherwise changes nothing; no game has more than 50
\* players.
C33_JoinUpToFifty ==
  /\ \A g \in GameIds : NumPlayers(games[g]) <= max_players
  /\ basic_games # 0 =>
       \A u \in Users :
         LET game == games[basic_games]
         IN  IF JoinAccepts(game, u)
             THEN ~ENABLED
                    ( /\ BasicJoin(u)
                      /\ ~ ( /\ DOMAIN games'[basic_games].players
                                  = DOMAIN game.players \cup {u}
                             /\ games'[basic_games].turn_order
                                  = Append(game.turn_order, u) ) )
             ELSE ~ENABLED (BasicJoin(u) /\ vars' # vars)

\* a user joined, the game has 50 players and another user is not one of them
C33_Witness ==
  /\ basic_games # 0
  /\ NumPlayers(games[basic_games]) = max_players
  /\ \E u, v \in Users :
       /\ u \in DOMAIN games[basic_games].players
       /\ v \notin DOMAIN games[basic_games].players

\* the chat's chain game is in its joining phase
Joining ==
  basic_games # 0 /\ games[basic_games].game_state \in {"waiting", "joining"}

\* C34: under fair scheduling of the timer task every chain game in the
\* joining phase eventually leaves it: it becomes active or is removed from
\* the registry.
C34_JoiningEnds == Joining ~> ~Joining

\* the chat's chain game is in its active phase
ActiveGame == basic_games # 0 /\ games[basic_games].game_state = "active"

\* every timer task that was created has ended
TimersEnded == \A t \in GameIds : timers[t].pc \in {"none", "done"}

\* C35: under fair scheduling of the timer task an active chain game in which
\* no word is accepted is eventually removed from the registry, and its timer
\* task is over.
C35_IdleGameIsRemoved == ActiveGame ~> (basic_games = 0 /\ TimersEnded)

\* the run of start_new_game that a start action of an individual session
\* began is in flight, and that session holds an active round
StartOverActiveRound(k) ==
  /\ fetches[k].op = "start"
  /\ fetches[k].chat \notin GroupChats
  /\ user_sessions[fetches[k].user].game_active

\* C36: a start action by a user whose individual session is active leaves
\* that round as it is: the run of start_new_game it began, when it ends,
\* changes neither the target nor the guesses nor the attempt count.
C36_StartLeavesActiveRound ==
  [][ \A k \in 1..Len(fetches) :
        StartOverActiveRound(k) /\ fetches' = RemoveAt(fetches, k)
        => LET before == user_sessions[fetches[k].user]
               after == user_sessions'[fetches[k].user]
           IN  /\ after.current_word = before.current_word
               /\ after.guesses = before.guesses
               /\ after.attempts = before.attempts ]_vars

\* the timer task t is suspended in a sleep or in a send, holding the session
\* object it read from the registry in its first run
Suspended(t) == TimerAlive(timers[t]) /\ timers[t].pc # "start"

\* C37: a timer task removes from the registry only the session it was
\* started for, and changes no other session: a step of a suspended task
\* leaves the registry entry of another session, and that session, as they
\* are.
C37_TaskTouchesOnlyItsSession ==
  [][ \A t \in DOMAIN timers :
        Suspended(t) /\ timers'[t] # timers[t]
        => /\ basic_games' # basic_games => basic_games = timers[t].game
           /\ \A h \in DOMAIN games :
                h # timers[t].game => games'[h] = games[h] ]_vars

\* C38: in every reachable state active_games is the set of the users whose
\* individual session has game_active true.
C38_ActiveGamesAreActiveSessions ==
  active_games = { u \in Users : user_sessions[u].game_active }

\* a round with a guess made is running, and registered, after more than the
\* idle limit of the sweep has passed
C38_Witness ==
  \E u \in Users :
    /\ u \in active_games
    /\ user_sessions[u].game_active
    /\ user_sessions[u].guesses # << >>
    /\ now > SESSION_IDLE + ClockStep

\* u is an eliminated player of the session g
EliminatedIn(g, u) ==
  u \in DOMAIN games[g].players /\ games[g].players[u].eliminated

\* the step accepts a word that u sent to the session g
AcceptsWordOf(g, u) ==
  \E k \in 1..Len(pending) :
    /\ pending[k].game = g /\ pending[k].user = u
    /\ pending' = RemoveAt(pending, k)
    /\ Len(games'[g].words_used) > Len(games[g].words_used)

\* an eliminated player stays eliminated and out of the turn order
StaysOut(g, u) ==
  /\ u \in DOMAIN games'[g].players => games'[g].players[u].eliminated
  /\ \A k \in 1..Len(games'[g].turn_order) : games'[g].turn_order[k] # u

\* C39: once a player of a chain game is eliminated, the flag stays true,
\* the player is never in the turn order again, and no word of the player
\* is accepted.
C39_EliminatedStaysOut ==
  [][ \A g \in DOMAIN games, u \in Users :
        EliminatedIn(g, u) => StaysOut(g, u) /\ ~AcceptsWordOf(g, u) ]_vars

\* the part of C39 about the flag and the turn order
C39_FlagAndOrderPart ==
  [][ \A g \in DOMAIN games, u \in Users :
        EliminatedIn(g, u) => StaysOut(g, u) ]_vars

\* C40: while a guess session is active every stored guess has as many
\* letters as the current target, and a step that puts a new target in the
\* place of the old one leaves the session without guesses.
C40_GuessesHaveTargetLength ==
  /\ [](\A s \in GuessSessions :
          s.game_active =>
            \A k \in 1..Len(s.guesses) :
              Len(s.guesses[k]) = Len(s.current_word))
  /\ [][\A u \in Users :
          /\ user_sessions'[u].current_word # user_sessions[u].current_word
          /\ user_sessions'[u].current_word # NoWord
          => user_sessions'[u].guesses = << >>]_vars

\* an active round holds a guess of its target's length after the configured
\* length was changed to another one
C40_Witness ==
  \E u \in Users :
    LET session == user_sessions[u]
    IN  /\ session.game_active
        /\ session.guesses # << >>
        /\ session.word_length # Len(session.current_word)

====
